---- MODULE Spec2Model ----
(***************************************************************************)
(* A model of the slippage estimation engine of slippage-sentinel:         *)
(*   src/src/route_finder.py        RouteFinder                            *)
(*   src/src/pool_analyzer.py       PoolAnalyzer                           *)
(*   src/src/trade_history.py       TradeHistoryAnalyzer                   *)
(*   src/src/slippage_calculator.py SlippageCalculator                     *)
(*   src/src/main.py                estimate_slippage                      *)
(*                                                                         *)
(* Python's float is the IEEE-754 binary64 format.  TLC's integers have 32 *)
(* bits, so a float is modelled here as sign, 53-bit significand (a        *)
(* natural number kept as limbs) and exponent, every operation rounding to *)
(* nearest, ties to even, as the hardware does.  Infinities, NaN and       *)
(* subnormals are out of reach of the bounded inputs and are not modelled. *)
(***************************************************************************)
EXTENDS Integers, Sequences, FiniteSets, TLC

\* ------------------------------------------------------------------------
\* Natural numbers of any size: little-endian sequences of limbs base 2^15
\* (the product of two limbs fits a 32-bit integer); <<>> is zero and the
\* most significant limb of any other number is not 0.
\* ------------------------------------------------------------------------
LimbBits == 3 * 5
Limb == 2 ^ LimbBits

RECURSIVE BNorm(_)
BNorm(a) ==
    IF a = <<>> THEN a
    ELSE IF a[Len(a)] = 0 THEN BNorm(SubSeq(a, 1, Len(a) - 1)) ELSE a

RECURSIVE BFromInt(_)
BFromInt(n) == IF n = 0 THEN <<>> ELSE <<n % Limb>> \o BFromInt(n \div Limb)

RECURSIVE BToInt(_)
BToInt(a) == IF a = <<>> THEN 0 ELSE a[1] + Limb * BToInt(Tail(a))

RECURSIVE BAddC(_, _, _)
BAddC(a, b, c) ==
    IF a = <<>> /\ b = <<>> THEN (IF c = 0 THEN <<>> ELSE <<c>>)
    ELSE LET x == IF a = <<>> THEN 0 ELSE Head(a)
             y == IF b = <<>> THEN 0 ELSE Head(b)
             s == x + y + c
         IN  <<s % Limb>> \o BAddC(IF a = <<>> THEN a ELSE Tail(a),
                                   IF b = <<>> THEN b ELSE Tail(b),
                                   s \div Limb)

BAdd(a, b) == BAddC(a, b, 0)

\* a - b for a >= b
RECURSIVE BSubC(_, _, _)
BSubC(a, b, c) ==
    IF a = <<>> THEN <<>>
    ELSE LET y == IF b = <<>> THEN 0 ELSE Head(b)
             d == Head(a) - y - c
         IN  <<d % Limb>> \o BSubC(Tail(a),
                                   IF b = <<>> THEN b ELSE Tail(b),
                                   IF d < 0 THEN 1 ELSE 0)

BSub(a, b) == BNorm(BSubC(a, b, 0))

RECURSIVE BCmpAt(_, _, _)
BCmpAt(a, b, i) ==
    IF i = 0 THEN 0
    ELSE IF a[i] > b[i] THEN 1
    ELSE IF a[i] < b[i] THEN -1
    ELSE BCmpAt(a, b, i - 1)

\* -1, 0, 1 as a < b, a = b, a > b
BCmp(a, b) ==
    IF Len(a) > Len(b) THEN 1
    ELSE IF Len(a) < Len(b) THEN -1
    ELSE BCmpAt(a, b, Len(a))

\* a * c for a limb-sized c
RECURSIVE BMulC(_, _, _)
BMulC(a, c, k) ==
    IF a = <<>> THEN BFromInt(k)
    ELSE LET p == Head(a) * c + k
         IN  <<p % Limb>> \o BMulC(Tail(a), c, p \div Limb)

BMulSmall(a, c) == BNorm(BMulC(a, c, 0))

BShlLimbs(a, k) == IF a = <<>> THEN a ELSE [i \in 1..k |-> 0] \o a

RECURSIVE BMul(_, _)
BMul(a, b) ==
    IF b = <<>> THEN <<>>
    ELSE BAdd(BMulSmall(a, Head(b)), BShlLimbs(BMul(a, Tail(b)), 1))

\* quotient (not normalised) and remainder of a by a limb-sized c > 0
RECURSIVE BDivC(_, _)
BDivC(a, c) ==
    IF a = <<>> THEN [q |-> <<>>, r |-> 0]
    ELSE LET h   == BDivC(Tail(a), c)
             cur == h.r * Limb + Head(a)
         IN  [q |-> <<cur \div c>> \o h.q, r |-> cur % c]

BDivSmall(a, c) == BNorm(BDivC(a, c).q)

\* a * 2^k and floor(a / 2^k)
BShl(a, k) == BMulSmall(BShlLimbs(a, k \div LimbBits), 2 ^ (k % LimbBits))

BShr(a, k) ==
    IF k \div LimbBits >= Len(a) THEN <<>>
    ELSE BDivSmall(SubSeq(a, (k \div LimbBits) + 1, Len(a)), 2 ^ (k % LimbBits))

RECURSIVE BitLenSmall(_)
BitLenSmall(n) == IF n = 0 THEN 0 ELSE 1 + BitLenSmall(n \div 2)

BBitLen(a) ==
    IF a = <<>> THEN 0 ELSE LimbBits * (Len(a) - 1) + BitLenSmall(a[Len(a)])

BOdd(a) == a # <<>> /\ a[1] % 2 = 1

\* The last component of a tuple.  TLC evaluates the components of a tuple
\* in order and each one once, on a small stack: naming an operand before
\* the expression that uses it keeps the operand from being evaluated on
\* top of that expression.
Last(t) == t[Len(t)]

\* floor(r / d) for 0 <= r < d * Limb, d > 0: qhat, the quotient of the
\* leading 30 bits of r by the leading 15 bits of d, is within [-1, 3] of it.
BDigitNear(r, d, qhat) ==
    CHOOSE c \in {x \in (qhat - 3)..(qhat + 1) : x >= 0 /\ x < Limb} :
        /\ BCmp(BMulSmall(d, c), r) <= 0
        /\ c + 1 = Limb \/ BCmp(BMulSmall(d, c + 1), r) > 0

BDigitAt(r, d, sh) == BDigitNear(r, d, BToInt(BShr(r, sh)) \div BToInt(BShr(d, sh)))

BDigit(r, d) ==
    BDigitAt(r, d, IF BBitLen(d) > LimbBits THEN BBitLen(d) - LimbBits ELSE 0)

\* quotient and remainder of n by d > 0, by long division, a limb at a time
\* from the top of n: BDivModAt(n, d, k) divides the limbs of n above the
\* k lowest; h is the division of the limbs above the k + 1 lowest, r2 the
\* running remainder and c the next digit of the quotient.
BDivModOut(d, h, r2, c) ==
    Last(<<c, [q |-> BNorm(<<c>> \o h.q), r |-> BSub(r2, BMulSmall(d, c))]>>)

BDivModDigit(d, h, r2) == Last(<<r2, BDivModOut(d, h, r2, BDigit(r2, d))>>)

BDivModStep(n, d, k, h) == Last(<<h, BDivModDigit(d, h, BNorm(<<n[k + 1]>> \o h.r))>>)

RECURSIVE BDivModAt(_, _, _)
BDivModAt(n, d, k) ==
    IF Len(n) - k < Len(d) THEN [q |-> <<>>, r |-> SubSeq(n, k + 1, Len(n))]
    ELSE BDivModStep(n, d, k, BDivModAt(n, d, k + 1))

BDivMod(n, d) == Last(<<n, d, BDivModAt(n, d, 0)>>)

\* floor(sqrt(n)) for n < 2^30
SqrtSmall(n) == CHOOSE s \in 0..Limb : s * s <= n /\ (s + 1) * (s + 1) > n

\* One step of Newton's iteration for sqrt(n): floor((x + floor(n / x)) / 2)
BSqrtStep(n, x) == Last(<<x, BShr(BAdd(x, BDivMod(n, x).q), 1)>>)

\* x is floor(sqrt(n))
BIsSqrt(n, x) ==
    /\ BCmp(BMul(x, x), n) <= 0
    /\ BCmp(BMul(BAddC(x, <<>>, 1), BAddC(x, <<>>, 1)), n) > 0

\* floor(sqrt(n)) given x, which is it or next to it
BSqrtNear(n, x) ==
    Last(<<x, IF BIsSqrt(n, x) THEN x
              ELSE IF BIsSqrt(n, BAddC(x, <<>>, 1)) THEN BAddC(x, <<>>, 1)
              ELSE BSub(x, <<1>>)>>)

BSqrtThird(n, x2) == Last(<<x2, BSqrtNear(n, BSqrtStep(n, x2))>>)

BSqrtSecond(n, x1) == Last(<<x1, BSqrtThird(n, BSqrtStep(n, x1))>>)

BSqrtFirst(n, x0) == Last(<<x0, BSqrtSecond(n, BSqrtStep(n, x0))>>)

BSqrtAt(n, sh) ==
    BSqrtFirst(n, BShl(BFromInt(SqrtSmall(BToInt(BShr(n, sh))) + 1), sh \div 2))

\* floor(sqrt(n)) for n of at most 8 limbs.  The root of the leading 29 or 30
\* bits of n, rounded up, is at least sqrt(n) and within 2^-13 of it; each
\* step of Newton's iteration squares the relative error, and the third lands
\* on the root or next to it.
BSqrt(n) ==
    IF n = <<>> THEN <<>>
    ELSE BSqrtAt(n, IF BBitLen(n) <= 30 THEN 0 ELSE 2 * ((BBitLen(n) - 29) \div 2))

\* ------------------------------------------------------------------------
\* IEEE-754 binary64: [s, m, e] stands for (-1)^s * m * 2^e with
\* 2^52 <= m < 2^53, and [s |-> 0, m |-> <<>>, e |-> 0] for 0.0.
\* ------------------------------------------------------------------------
MantBits == 52 + 1

FZero == [s |-> 0, m |-> <<>>, e |-> 0]

\* q * 2^e with q of MantBits bits, or of one more after a carry
FPack(s, q, e) ==
    IF BBitLen(q) > MantBits THEN [s |-> s, m |-> BShr(q, 1), e |-> e + 1]
    ELSE [s |-> s, m |-> q, e |-> e]

\* q rounded up or not, as the discarded part compares (c) with one half
FRoundTie(s, q, e, sticky, c) ==
    FPack(s, IF c > 0 \/ (c = 0 /\ (sticky \/ BOdd(q))) THEN BAddC(q, <<>>, 1) ELSE q, e)

\* n has d > 0 bits too many, q are the bits kept
FRoundCut(s, n, e, sticky, d, q) ==
    Last(<<q, FRoundTie(s, q, e + d, sticky, BCmp(BSub(n, BShl(q, d)), BShl(<<1>>, d - 1)))>>)

FRoundBits(s, n, e, sticky, d) ==
    IF d <= 0 THEN [s |-> s, m |-> BShl(n, -d), e |-> e + d]
    ELSE FRoundCut(s, n, e, sticky, d, BShr(n, d))

\* n * 2^e rounded to nearest, ties to even; sticky tells that the exact
\* value lies strictly above n * 2^e (and below (n + 1) * 2^e), which callers
\* use only with n of more than MantBits + 1 bits.
FRound(s, n, e, sticky) ==
    Last(<<n, IF n = <<>> THEN FZero ELSE FRoundBits(s, n, e, sticky, BBitLen(n) - MantBits)>>)

Abs(n) == IF n < 0 THEN -n ELSE n

FFromInt(n) == FRound(IF n < 0 THEN 1 ELSE 0, BFromInt(Abs(n)), 0, FALSE)

FMul(x, y) == Last(<<x, y, FRound((x.s + y.s) % 2, BMul(x.m, y.m), x.e + y.e, FALSE)>>)

\* the quotient of x.m * 2^(MantBits + 4) by y.m has at least MantBits + 4
\* bits; a remainder makes it sticky
FDivOut(x, y, h) ==
    Last(<<h, FRound((x.s + y.s) % 2, h.q, x.e - y.e - (MantBits + 4), h.r # <<>>)>>)

FDiv(x, y) == Last(<<x, y, FDivOut(x, y, BDivMod(BShl(x.m, MantBits + 4), y.m))>>)

\* a * 2^e and b * 2^e of opposite signs sx and sy, c comparing a with b
FAddOpposite(sx, sy, a, b, e, c) ==
    IF c = 0 THEN FZero
    ELSE IF c > 0 THEN FRound(sx, BSub(a, b), e, FALSE)
    ELSE FRound(sy, BSub(b, a), e, FALSE)

FAddAligned(sx, sy, a, b, e) ==
    Last(<<a, b, IF sx = sy THEN FRound(sx, BAdd(a, b), e, FALSE)
                 ELSE FAddOpposite(sx, sy, a, b, e, BCmp(a, b))>>)

FAddAt(x, y, e) == FAddAligned(x.s, y.s, BShl(x.m, x.e - e), BShl(y.m, y.e - e), e)

\* exact sum at the smaller exponent, then rounded (the operands of the
\* model are within 2^64 of each other)
FAdd(x, y) ==
    Last(<<x, y, IF x.m = <<>> THEN y
                 ELSE IF y.m = <<>> THEN x
                 ELSE FAddAt(x, y, IF x.e < y.e THEN x.e ELSE y.e)>>)

FNeg(x) == IF x.m = <<>> THEN x ELSE [x EXCEPT !.s = 1 - x.s]

FSub(x, y) == FAdd(x, FNeg(y))

FSqrtOut(n, r, e) == Last(<<r, FRound(0, r, e, BCmp(BMul(r, r), n) # 0)>>)

FSqrtOf(n, e) == Last(<<n, FSqrtOut(n, BSqrt(n), e)>>)

\* sqrt(x) for x >= 0: the root of x.m * 2^k, of at least MantBits + 2 bits,
\* with k making the exponent even
FSqrtAt(x, k) == FSqrtOf(BShl(x.m, k), (x.e - k) \div 2)

FSqrt(x) ==
    Last(<<x, IF x.m = <<>> THEN FZero
              ELSE FSqrtAt(x, IF x.e % 2 = 0 THEN MantBits + 5 ELSE MantBits + 4)>>)

FSign(d) == IF d.m = <<>> THEN 0 ELSE IF d.s = 1 THEN -1 ELSE 1

\* -1, 0, 1 as x < y, x = y, x > y
FCmp(x, y) == Last(<<x, y, FSign(FSub(x, y))>>)

\* the integer part of |x|
FMag(x) == IF x.e >= 0 THEN BShl(x.m, x.e) ELSE BShr(x.m, -x.e)

\* int(x): the integer part of x, truncated towards zero
FTrunc(x) == Last(<<x, IF x.s = 1 THEN -BToInt(FMag(x)) ELSE BToInt(FMag(x))>>)

FRintTie(x, q, c) ==
    FRound(x.s, IF c > 0 \/ (c = 0 /\ BOdd(q)) THEN BAddC(q, <<>>, 1) ELSE q, 0, FALSE)

FRintCut(x, q) ==
    Last(<<q, FRintTie(x, q, BCmp(BSub(x.m, BShl(q, -x.e)), BShl(<<1>>, (-x.e) - 1)))>>)

\* rint(x): the nearest integral value, ties to even
FRint(x) == Last(<<x, IF x.e >= 0 THEN x ELSE FRintCut(x, FMag(x))>>)

\* the float literals of the code
F100 == FFromInt(100)

F10 == FFromInt(10)

F1 == FFromInt(1)

\* 0.01
FHundredth == FDiv(F1, F100)

\* 0.5
FHalf == FDiv(F1, FFromInt(2))

\* 1.5
FOneAndHalf == FDiv(FFromInt(3), FFromInt(2))

\* 10^4, the scale of round(x, 4)
FTenThousand == FFromInt(10 ^ 4)

(***************************************************************************)
(* Python values.  None is a record of its own; a string that may be None  *)
(* (route_hint) uses NoHint.  Addresses and exchange names are strings;    *)
(* str.lower and Web3.to_checksum_address are tables over the strings the  *)
(* model uses.                                                             *)
(***************************************************************************)
None == [none |-> TRUE]

NoHint == "None"

TokenA == "0xAa"

TokenB == "0xBb"

TokenC == "0xCc"

ZERO_ADDRESS == "0x0000000000000000000000000000000000000000"

lower(s) ==
    CASE s = "0xAa" -> "0xaa"
      [] s = "0xBb" -> "0xbb"
      [] s = "0xCc" -> "0xcc"
      [] s = "SushiSwap" -> "sushiswap"
      [] OTHER -> s

to_checksum_address(s) ==
    CASE s = "0xaa" -> "0xAa"
      [] s = "0xbb" -> "0xBb"
      [] s = "0xcc" -> "0xCc"
      [] OTHER -> s

\* if x: for a string that may be None
Truthy(s) == s # NoHint /\ s # ""

Max(a, b) == IF a >= b THEN a ELSE b

Min(a, b) == IF a <= b THEN a ELSE b

(***************************************************************************)
(* dex_config.py                                                           *)
(***************************************************************************)
CHAIN_CONFIG == {1, 137, 42161, 10, 8453, 56, 43114}

\* the keys of each chain's factory table, in insertion order
DEX_FACTORIES ==
    [c \in CHAIN_CONFIG |->
        CASE c = 1     -> <<"uniswap_v2", "sushiswap">>
          [] c = 137   -> <<"quickswap", "sushiswap">>
          [] c = 42161 -> <<"sushiswap", "uniswap_v2">>
          [] c = 10    -> <<"uniswap_v2">>
          [] c = 8453  -> <<"uniswap_v2">>
          [] c = 56    -> <<"pancakeswap", "sushiswap">>
          [] OTHER     -> <<"traderjoe", "sushiswap">>]

\* DEX_FACTORIES.get(chain_id, {})
Factories(chain_id) ==
    IF chain_id \in CHAIN_CONFIG THEN DEX_FACTORIES[chain_id] ELSE <<>>

\* factories.get(dex_name.lower()) is not None
HasFactory(chain_id, dex_name) ==
    \E i \in 1..Len(Factories(chain_id)) : Factories(chain_id)[i] = lower(dex_name)

FactoryAddress(chain_id, dex_name) ==
    IF HasFactory(chain_id, dex_name)
    THEN "factory:" \o lower(dex_name)
    ELSE "None"

\* get_rpc_url(chain_id) is not None
get_rpc_url(chain_id) == chain_id \in CHAIN_CONFIG

(***************************************************************************)
(* Bounds.  Amounts are in wei of a token with Decimals decimals (the code *)
(* uses 18); Tok(n) is n whole tokens.                                     *)
(***************************************************************************)
Decimals == 1

MaxHops == 2

Tok(n) == n * 10 ^ Decimals

(***************************************************************************)
(* pool_analyzer.py: the pure computations                                 *)
(***************************************************************************)
ZeroDivisionError == [raised |-> "ZeroDivisionError"]

FloorDivOut(neg, d, h) ==
    IF neg = (d < 0) THEN BToInt(h.q)
    ELSE -(BToInt(h.q) + IF h.r = <<>> THEN 0 ELSE 1)

\* n // d of Python integers, the numerator given as sign and magnitude
FloorDiv(neg, mag, d) ==
    IF mag = <<>> THEN 0 ELSE FloorDivOut(neg, d, BDivMod(mag, BFromInt(Abs(d))))

OutputAmount(amount_in_with_fee, reserve_in, reserve_out, denominator) ==
    IF denominator = 0 THEN ZeroDivisionError
    ELSE [raised |-> "",
          value  |-> FloorDiv((amount_in_with_fee < 0) # (reserve_out < 0),
                              BMul(BFromInt(Abs(amount_in_with_fee)),
                                   BFromInt(Abs(reserve_out))),
                              denominator)]

\* the fee added to the input where it is to be taken off
calculate_output_amount_fee_added(amount_in, reserve_in, reserve_out, fee_bps) ==
    OutputAmount(amount_in * (10000 + fee_bps), reserve_in, reserve_out,
                 (reserve_in * 10000) + (amount_in * (10000 + fee_bps)))

\* the fee taken off the input by an integer division before the swap formula
calculate_output_amount_fee_first(amount_in, reserve_in, reserve_out, fee_bps) ==
    OutputAmount((amount_in * (10000 - fee_bps)) \div 10000, reserve_in, reserve_out,
                 reserve_in + ((amount_in * (10000 - fee_bps)) \div 10000))

calculate_output_amount(amount_in, reserve_in, reserve_out, fee_bps) ==
    OutputAmount(amount_in * (10000 - fee_bps), reserve_in, reserve_out,
                 (reserve_in * 10000) + (amount_in * (10000 - fee_bps)))

\* an amount of 0 reported as no impact, whatever the reserve
calculate_price_impact_nothing_in_as_zero(amount_in, reserve_in, reserve_out) ==
    IF amount_in = 0 THEN FZero
    ELSE IF reserve_in = 0 THEN F100
    ELSE FMul(FDiv(FFromInt(amount_in), FFromInt(reserve_in)), F100)

\* an empty input reserve reported as no impact
calculate_price_impact_empty_as_zero(amount_in, reserve_in, reserve_out) ==
    IF reserve_in = 0 THEN FZero
    ELSE FMul(FDiv(FFromInt(amount_in), FFromInt(reserve_in)), F100)

calculate_price_impact(amount_in, reserve_in, reserve_out) ==
    IF reserve_in = 0 THEN F100
    ELSE FMul(FDiv(FFromInt(amount_in), FFromInt(reserve_in)), F100)

LiquidityMetrics(reserve_in_tokens, reserve_out_tokens, recommended_max_trade) ==
    [reserve_in_tokens     |-> reserve_in_tokens,
     reserve_out_tokens    |-> reserve_out_tokens,
     liquidity_score       |->
         IF FCmp(reserve_in_tokens, F100) > 0 THEN "high"
         ELSE IF FCmp(reserve_in_tokens, F10) > 0 THEN "medium"
         ELSE "low",
     recommended_max_trade |-> recommended_max_trade]

\* 10 ** n
RECURSIVE BPow10(_)
BPow10(n) == IF n = 0 THEN <<1>> ELSE BMulSmall(BPow10(n - 1), 10)

\* float(n) of an integer n >= 0 of any size, given as its magnitude
FFromBig(a) == FRound(0, a, 0, FALSE)

TrueDivOut(h, k) == Last(<<h, FRound(0, h.q, -k, h.r # <<>>)>>)

\* a / b of integers a >= 0 and b > 0 of any size: the quotient of
\* a * 2^k by b, of more than MantBits + 1 bits, rounded once
TrueDiv(a, b) ==
    IF a = <<>> THEN FZero
    ELSE TrueDivOut(BDivMod(BShl(a, Max(0, MantBits + 4 + BBitLen(b) - BBitLen(a))), b),
                    Max(0, MantBits + 4 + BBitLen(b) - BBitLen(a)))

\* estimate_liquidity_depth on reserves of any size, given as magnitudes;
\* recommended_max_trade is a magnitude too
LiquidityDepth(reserve_in, reserve_out, decimals_in, decimals_out) ==
    LiquidityMetrics(TrueDiv(reserve_in, BPow10(decimals_in)),
                     TrueDiv(reserve_out, BPow10(decimals_out)),
                     FMag(FMul(FFromBig(reserve_in), FHundredth)))

\* the metrics with recommended_max_trade as a number
Narrow(metrics) == [metrics EXCEPT !.recommended_max_trade = BToInt(@)]

estimate_liquidity_depth(reserve_in, reserve_out, decimals_in, decimals_out) ==
    Narrow(LiquidityDepth(BFromInt(reserve_in), BFromInt(reserve_out),
                          decimals_in, decimals_out))

(***************************************************************************)
(* trade_history.py: analyze_trade_sizes with the numpy calls it makes     *)
(***************************************************************************)
RECURSIVE Insert(_, _)
Insert(x, s) ==
    IF s = <<>> THEN <<x>>
    ELSE IF x <= Head(s) THEN <<x>> \o s
    ELSE <<Head(s)>> \o Insert(x, Tail(s))

RECURSIVE Sorted(_)
Sorted(s) == IF s = <<>> THEN s ELSE Insert(Head(s), Sorted(Tail(s)))

\* the float sum of a sequence of floats, added left to right
RECURSIVE FSumTo(_, _)
FSumTo(s, k) == IF k = 0 THEN FZero ELSE FAdd(FSumTo(s, k - 1), s[k])

Floats(xs) == [i \in 1..Len(xs) |-> FFromInt(xs[i])]

\* np.mean of integers: the float sum over the count
np_mean(xs) == FDiv(FSumTo(Floats(xs), Len(xs)), FFromInt(Len(xs)))

Squares(dev) == [i \in 1..Len(dev) |-> FMul(dev[i], dev[i])]

Deviations(fs, mean) == [i \in 1..Len(fs) |-> FSub(fs[i], mean)]

\* np.std: the root of the mean squared deviation from the mean
np_std(xs) ==
    FSqrt(FDiv(FSumTo(Squares(Deviations(Floats(xs), np_mean(xs))), Len(xs)),
               FFromInt(Len(xs))))

\* a + (b - a) * t, computed from b when t >= 1/2
Lerp(a, b, diff, t) ==
    IF FCmp(t, FHalf) >= 0
    THEN FSub(FFromInt(b), FMul(diff, FSub(F1, t)))
    ELSE FAdd(FFromInt(a), FMul(diff, t))

\* the order statistics at prev and prev + 1 (0-based), interpolated
Interpolate(arr, vi, prev) ==
    Lerp(arr[prev + 1], arr[prev + 2], FFromInt(arr[prev + 2] - arr[prev + 1]),
         FSub(vi, FFromInt(prev)))

\* the virtual index vi is in range, or is at or above the last index, where
\* the last element is taken
Quantile(arr, n, vi) ==
    IF FCmp(vi, FFromInt(n - 1)) >= 0
    THEN Lerp(arr[n], arr[n], FZero, FAdd(vi, F1))
    ELSE Interpolate(arr, vi, FTrunc(vi))

\* np.percentile(xs, q), method "linear": interpolation between the order
\* statistics around index (n - 1) * (q / 100)
np_percentile(xs, q) ==
    Quantile(Sorted(xs), Len(xs), FMul(FFromInt(Len(xs) - 1), FDiv(FFromInt(q), F100)))

VolatilityFactor(std_size, mean_size) ==
    IF FCmp(mean_size, FZero) > 0 THEN FDiv(std_size, mean_size) ELSE FZero

\* analyze_trade_sizes with a volatility factor of 1.0 when there is nothing to analyse
Analysis_unit_default(swaps, trade_sizes) ==
    IF swaps = <<>> \/ trade_sizes = <<>>
    THEN [trade_size_p50 |-> 0, trade_size_p95 |-> 0, trade_size_p99 |-> 0,
          volatility_factor |-> F1, total_swaps |-> Len(swaps)]
    ELSE [trade_size_p50 |-> FTrunc(np_percentile(trade_sizes, 50)),
          trade_size_p95 |-> FTrunc(np_percentile(trade_sizes, 95)),
          trade_size_p99 |-> FTrunc(np_percentile(trade_sizes, 99)),
          volatility_factor |-> VolatilityFactor(np_std(trade_sizes), np_mean(trade_sizes)),
          total_swaps |-> Len(swaps)]

\* analyze_trade_sizes counting the swaps that passed the filter
Analysis_filtered_count(swaps, trade_sizes) ==
    IF swaps = <<>> \/ trade_sizes = <<>>
    THEN [trade_size_p50 |-> 0, trade_size_p95 |-> 0, trade_size_p99 |-> 0,
          volatility_factor |-> FZero, total_swaps |-> Len(trade_sizes)]
    ELSE [trade_size_p50 |-> FTrunc(np_percentile(trade_sizes, 50)),
          trade_size_p95 |-> FTrunc(np_percentile(trade_sizes, 95)),
          trade_size_p99 |-> FTrunc(np_percentile(trade_sizes, 99)),
          volatility_factor |-> VolatilityFactor(np_std(trade_sizes), np_mean(trade_sizes)),
          total_swaps |-> Len(trade_sizes)]

Analysis(swaps, trade_sizes) ==
    IF swaps = <<>> \/ trade_sizes = <<>>
    THEN [trade_size_p50 |-> 0, trade_size_p95 |-> 0, trade_size_p99 |-> 0,
          volatility_factor |-> FZero, total_swaps |-> Len(swaps)]
    ELSE [trade_size_p50 |-> FTrunc(np_percentile(trade_sizes, 50)),
          trade_size_p95 |-> FTrunc(np_percentile(trade_sizes, 95)),
          trade_size_p99 |-> FTrunc(np_percentile(trade_sizes, 99)),
          volatility_factor |-> VolatilityFactor(np_std(trade_sizes), np_mean(trade_sizes)),
          total_swaps |-> Len(swaps)]

analyze_trade_sizes(swaps) == Analysis(swaps, SelectSeq(swaps, LAMBDA t : t > 0))

\* round(x, 4) of a numpy float: scale by 10^4, rint, scale back
round4(x) == FDiv(FRint(FMul(x, FTenThousand)), FTenThousand)

(***************************************************************************)
(* Requests.  amount_in arrives as text, a sequence of characters.         *)
(***************************************************************************)
DigitChars == <<"0", "1", "2", "3", "4", "5", "6", "7", "8", "9">>

IsDigit(c) == \E i \in 1..10 : DigitChars[i] = c

DigitValue(c) == (CHOOSE i \in 1..10 : DigitChars[i] = c) - 1

RECURSIVE Digits(_)
Digits(n) ==
    IF n < 10 THEN <<DigitChars[n + 1]>>
    ELSE Digits(n \div 10) \o <<DigitChars[(n % 10) + 1]>>

\* str(n)
Str(n) == IF n < 0 THEN <<"-">> \o Digits(-n) ELSE Digits(n)

RECURSIVE DigitsValue(_, _)
DigitsValue(s, k) == IF k = 0 THEN 0 ELSE 10 * DigitsValue(s, k - 1) + DigitValue(s[k])

ValueError == [raised |-> "ValueError"]

\* int(text): an optional sign and decimal digits, anything else raises
ParseInt(s) ==
    LET signed == s # <<>> /\ Head(s) \in {"-", "+"}
        body   == IF signed THEN Tail(s) ELSE s
    IN  IF body = <<>> \/ \E i \in 1..Len(body) : ~IsDigit(body[i]) THEN ValueError
        ELSE [raised |-> "",
              value  |-> IF signed /\ Head(s) = "-"
                         THEN -DigitsValue(body, Len(body))
                         ELSE DigitsValue(body, Len(body))]

TokenPairs == {<<TokenA, TokenB>>, <<"0xaa", TokenB>>, <<TokenB, TokenA>>, <<"0xbb", TokenA>>}

RouteHints == {NoHint, "", "sushiswap", "SushiSwap", "pancakeswap"}

ChainIds == {1, 999}

AmountTexts == {Str(0), Str(29), Str(Tok(10)), Str(-1), <<"a", "b", "c">>}

\* requests that vary the route inputs, and requests that vary the amount
Requests ==
    {[token_in |-> p[1], token_out |-> p[2], amount_in |-> Str(Tok(10)),
      chain |-> c, route_hint |-> h] : p \in TokenPairs, c \in ChainIds, h \in RouteHints}
    \cup
    {[token_in |-> TokenA, token_out |-> TokenB, amount_in |-> a,
      chain |-> 1, route_hint |-> NoHint] : a \in AmountTexts}

(***************************************************************************)
(* What the chain may answer to one RPC call.  The node may be unreachable *)
(* or fail at any call, and pools change between calls.                    *)
(***************************************************************************)
ConnOutcomes == {"connected", "not_connected", "raise"}

PairOf(dex) == "pair:" \o dex

NoPair == "None"

GetPairAnswers(dex_name) == {"raise", ZERO_ADDRESS, PairOf(lower(dex_name))}

AllPairAnswers ==
    {"raise", ZERO_ADDRESS} \cup
    UNION {{PairOf(DEX_FACTORIES[c][i]) : i \in 1..Len(DEX_FACTORIES[c])} : c \in CHAIN_CONFIG}

ReservePairs == {<<0, Tok(10)>>, <<Tok(100), 100>>, <<Tok(1000), 1>>}

PoolTokens == {<<TokenA, TokenB>>, <<TokenB, TokenC>>}

PoolAnswers ==
    {[ok |-> FALSE, reserve0 |-> 0, reserve1 |-> 0, token0 |-> "", token1 |-> ""]}
    \cup
    {[ok |-> TRUE, reserve0 |-> r[1], reserve1 |-> r[2], token0 |-> t[1], token1 |-> t[2]] :
        r \in ReservePairs, t \in PoolTokens}

\* a Swap log: the four amounts of its payload, or a payload that does not decode
SwapLog(amount0In, amount1In) == <<amount0In, amount1In, 0, 0>>

BadLog == <<>>

\* logs of a pool in steady use, one of them not decodable
BusyLogs == <<SwapLog(Tok(1), 0), BadLog, SwapLog(0, Tok(2)), SwapLog(Tok(2), Tok(1))>>

LogLists ==
    { <<>>,
      <<SwapLog(0, 0)>>,
      BusyLogs,
      <<SwapLog(1, 0), SwapLog(0, 1), SwapLog(1, 0), SwapLog(Tok(100), 0)>> }

LogAnswers ==
    {[ok |-> FALSE, logs |-> <<>>]} \cup {[ok |-> TRUE, logs |-> l] : l \in LogLists}

(***************************************************************************)
(* The RPC-facing operations, each given the outcome of the connection     *)
(* attempt it may make and the chain's answer to the call it may issue.    *)
(***************************************************************************)
\* get_w3 keeping the handle it set up whether or not the node answered
get_w3_dead_handle_kept(cache, chain_id, conn) ==
    IF chain_id \in cache THEN [w3 |-> TRUE, cache |-> cache]
    ELSE IF ~get_rpc_url(chain_id) THEN [w3 |-> FALSE, cache |-> cache]
    ELSE IF conn = "connected" THEN [w3 |-> TRUE, cache |-> cache \cup {chain_id}]
    ELSE IF conn = "not_connected" THEN [w3 |-> FALSE, cache |-> cache \cup {chain_id}]
    ELSE [w3 |-> FALSE, cache |-> cache]

\* get_w3 on one of the w3_connections caches (its set of keys)
get_w3(cache, chain_id, conn) ==
    IF chain_id \in cache THEN [w3 |-> TRUE, cache |-> cache]
    ELSE IF ~get_rpc_url(chain_id) THEN [w3 |-> FALSE, cache |-> cache]
    ELSE IF conn = "connected" THEN [w3 |-> TRUE, cache |-> cache \cup {chain_id}]
    ELSE [w3 |-> FALSE, cache |-> cache]

\* find_pair_on_dex without its zero-address test
find_pair_on_dex_zero_accepted(cache, chain_id, dex_name, token_in, token_out, conn, answer) ==
    LET c == get_w3(cache, chain_id, conn)
    IN  IF ~c.w3 THEN [pair |-> NoPair, cache |-> c.cache, probed |-> FALSE]
        ELSE IF ~HasFactory(chain_id, dex_name)
             THEN [pair |-> NoPair, cache |-> c.cache, probed |-> FALSE]
        ELSE IF answer = "raise"
             THEN [pair |-> NoPair, cache |-> c.cache, probed |-> TRUE]
        ELSE [pair |-> answer, cache |-> c.cache, probed |-> TRUE]

\* probed: the factory's getPair was called
find_pair_on_dex(cache, chain_id, dex_name, token_in, token_out, conn, answer) ==
    LET c == get_w3(cache, chain_id, conn)
    IN  IF ~c.w3 THEN [pair |-> NoPair, cache |-> c.cache, probed |-> FALSE]
        ELSE IF ~HasFactory(chain_id, dex_name)
             THEN [pair |-> NoPair, cache |-> c.cache, probed |-> FALSE]
        ELSE IF answer = "raise" \/ answer = ZERO_ADDRESS
             THEN [pair |-> NoPair, cache |-> c.cache, probed |-> TRUE]
        ELSE [pair |-> answer, cache |-> c.cache, probed |-> TRUE]

\* get_pool_reserves taking token0 for the input token when neither matches
get_pool_reserves_unmatched_as_token0(cache, chain_id, pair_address, token_in, token_out, conn, answer) ==
    LET c == get_w3(cache, chain_id, conn)
        token_in_checksum == to_checksum_address(token_in)
    IN  IF ~c.w3 \/ ~answer.ok THEN [cache |-> c.cache, value |-> None]
        ELSE IF lower(answer.token1) = lower(token_in_checksum)
             THEN [cache |-> c.cache,
                   value |-> [reserve_in |-> answer.reserve1, reserve_out |-> answer.reserve0]]
        ELSE [cache |-> c.cache,
              value |-> [reserve_in |-> answer.reserve0, reserve_out |-> answer.reserve1]]

\* get_pool_reserves giving the reserves in the pool's order on a token1 match
get_pool_reserves_token1_unswapped(cache, chain_id, pair_address, token_in, token_out, conn, answer) ==
    LET c == get_w3(cache, chain_id, conn)
        token_in_checksum == to_checksum_address(token_in)
    IN  IF ~c.w3 \/ ~answer.ok THEN [cache |-> c.cache, value |-> None]
        ELSE IF lower(answer.token0) = lower(token_in_checksum)
                \/ lower(answer.token1) = lower(token_in_checksum)
             THEN [cache |-> c.cache,
                   value |-> [reserve_in |-> answer.reserve0, reserve_out |-> answer.reserve1]]
        ELSE [cache |-> c.cache, value |-> None]

get_pool_reserves(cache, chain_id, pair_address, token_in, token_out, conn, answer) ==
    LET c == get_w3(cache, chain_id, conn)
        token_in_checksum == to_checksum_address(token_in)
    IN  IF ~c.w3 \/ ~answer.ok THEN [cache |-> c.cache, value |-> None]
        ELSE IF lower(answer.token0) = lower(token_in_checksum)
             THEN [cache |-> c.cache,
                   value |-> [reserve_in |-> answer.reserve0, reserve_out |-> answer.reserve1]]
        ELSE IF lower(answer.token1) = lower(token_in_checksum)
             THEN [cache |-> c.cache,
                   value |-> [reserve_in |-> answer.reserve1, reserve_out |-> answer.reserve0]]
        ELSE [cache |-> c.cache, value |-> None]

\* a decoding loop that gives up at the first log that does not decode
RECURSIVE ParseLogs_undecodable_ends(_)
ParseLogs_undecodable_ends(logs) ==
    IF logs = <<>> THEN <<>>
    ELSE IF Len(Head(logs)) < 4 THEN <<>>
    ELSE <<[amount0In  |-> Head(logs)[1], amount1In  |-> Head(logs)[2],
            amount0Out |-> Head(logs)[3], amount1Out |-> Head(logs)[4],
            trade_size |-> Head(logs)[1] + Head(logs)[2]]>>
         \o ParseLogs_undecodable_ends(Tail(logs))

\* the swaps parsed from the logs that decode, in log order; a payload
\* decodes when it holds the four words the slices are taken from
RECURSIVE ParseLogs(_)
ParseLogs(logs) ==
    IF logs = <<>> THEN <<>>
    ELSE IF Len(Head(logs)) < 4 THEN ParseLogs(Tail(logs))
    ELSE <<[amount0In  |-> Head(logs)[1], amount1In  |-> Head(logs)[2],
            amount0Out |-> Head(logs)[3], amount1Out |-> Head(logs)[4],
            trade_size |-> Head(logs)[1] + Head(logs)[2]]>> \o ParseLogs(Tail(logs))

\* the head block of a chain that answers the estimate endpoint's queries
HeadBlock == 1200

\* what a read of the node gives: a value, or an exception
Answered(value) == [raised |-> FALSE, value |-> value]

Raised == [raised |-> TRUE, value |-> None]

\* the filter get_recent_swaps queries the logs with
FilterParams(pair_address, current_block, blocks_back) ==
    [address   |-> to_checksum_address(pair_address),
     fromBlock |-> Max(0, current_block - blocks_back),
     toBlock   |-> current_block]

\* get_recent_swaps on a chain whose head-block read gives head and whose
\* log query gives logs; filter_params: the filter of the log query, None
\* when none was issued
RecentSwaps(cache, chain_id, pair_address, blocks_back, conn, head, logs) ==
    LET c == get_w3(cache, chain_id, conn)
    IN  IF ~c.w3 \/ head.raised
        THEN [cache |-> c.cache, swaps |-> <<>>, failed |-> TRUE, filter_params |-> None]
        ELSE IF logs.raised
        THEN [cache |-> c.cache, swaps |-> <<>>, failed |-> TRUE,
              filter_params |-> FilterParams(pair_address, head.value, blocks_back)]
        ELSE [cache |-> c.cache, swaps |-> ParseLogs(logs.value), failed |-> FALSE,
              filter_params |-> FilterParams(pair_address, head.value, blocks_back)]

\* failed: the connection, the head-block read or the log query failed
get_recent_swaps(cache, chain_id, pair_address, blocks_back, conn, answer) ==
    LET r == RecentSwaps(cache, chain_id, pair_address, blocks_back, conn,
                         IF answer.ok THEN Answered(HeadBlock) ELSE Raised,
                         IF answer.ok THEN Answered(answer.logs) ELSE Raised)
    IN  [cache |-> r.cache, swaps |-> r.swaps, failed |-> r.failed]

TradeSizes(swaps) == [i \in 1..Len(swaps) |-> swaps[i].trade_size]

\* analyze_trade_sizes on each list of swaps the chain's answers can give,
\* computed once
TradeAnalysis ==
    [sizes \in {TradeSizes(ParseLogs(a.logs)) : a \in LogAnswers} |-> analyze_trade_sizes(sizes)]

\* a trade analyzer that reads the history only on the call that sets up its
\* handle and reports no swaps on the calls after it
get_volatility_metrics_read_once(cache, chain_id, pair_address, blocks_back, conn, answer) ==
    LET r == get_recent_swaps(cache, chain_id, pair_address, blocks_back, conn, answer)
    IN  [cache   |-> r.cache,
         failed  |-> r.failed,
         metrics |-> IF chain_id \in cache THEN TradeAnalysis[<<>>]
                     ELSE TradeAnalysis[TradeSizes(r.swaps)]]

get_volatility_metrics(cache, chain_id, pair_address, blocks_back, conn, answer) ==
    LET r == get_recent_swaps(cache, chain_id, pair_address, blocks_back, conn, answer)
    IN  [cache   |-> r.cache,
         failed  |-> r.failed,
         metrics |-> TradeAnalysis[TradeSizes(r.swaps)]]

(***************************************************************************)
(* slippage_calculator.py: the aggregation of calculate_safe_slippage      *)
(***************************************************************************)
mev_buffer_bps == 20

liquidity_buffer_bps(liquidity_score) ==
    IF liquidity_score = "low" THEN 50
    ELSE IF liquidity_score = "medium" THEN 25
    ELSE 10

\* the price impact without its 1.5x margin
base_slippage_bps_unscaled(price_impact_bps) == FTrunc(FFromInt(price_impact_bps))

base_slippage_bps(price_impact_bps) ==
    FTrunc(FMul(FFromInt(price_impact_bps), FOneAndHalf))

volatility_buffer_bps(volatility_factor) == FTrunc(FMul(volatility_factor, F100))

\* the sum with the floor of 50 but no ceiling
min_safe_slip_bps_uncapped(price_impact_bps, liquidity_score, volatility_factor) ==
    Max(50, base_slippage_bps(price_impact_bps)
            + volatility_buffer_bps(volatility_factor)
            + liquidity_buffer_bps(liquidity_score)
            + mev_buffer_bps)

min_safe_slip_bps(price_impact_bps, liquidity_score, volatility_factor) ==
    Max(50, Min(5000, base_slippage_bps(price_impact_bps)
                      + volatility_buffer_bps(volatility_factor)
                      + liquidity_buffer_bps(liquidity_score)
                      + mev_buffer_bps))

\* the dict returned on success
Recommendation(rt, rs, price_impact_bps, liquidity_metrics, volatility_metrics) ==
    [min_safe_slip_bps |->
         min_safe_slip_bps(price_impact_bps, liquidity_metrics.liquidity_score,
                           volatility_metrics.volatility_factor),
     pool_depths |->
         [token_in_reserve   |-> Str(rs.reserve_in),
          token_out_reserve  |-> Str(rs.reserve_out),
          reserve_in_tokens  |-> liquidity_metrics.reserve_in_tokens,
          reserve_out_tokens |-> liquidity_metrics.reserve_out_tokens,
          liquidity_score    |-> liquidity_metrics.liquidity_score],
     recent_trade_size_p95 |-> volatility_metrics.trade_size_p95,
     price_impact_bps      |-> price_impact_bps,
     volatility_factor     |-> round4(volatility_metrics.volatility_factor),
     recommended_max_trade |-> liquidity_metrics.recommended_max_trade,
     route_used            |-> rt.dex_name,
     pair_address          |-> rt.pair_address]

(***************************************************************************)
(* slippage_calculator.py: calculate_multi_hop_slippage's result           *)
(***************************************************************************)
\* the result without the cap on the total
MultiHopResult_uncapped(path, total_slippage_bps, hop_details) ==
    [total_slippage_bps |-> total_slippage_bps,
     num_hops           |-> Len(path),
     hop_details        |-> hop_details]

MultiHopResult(path, total_slippage_bps, hop_details) ==
    [total_slippage_bps |-> Min(5000, total_slippage_bps),
     num_hops           |-> Len(path),
     hop_details        |-> hop_details]

\* the paths and amounts calculate_multi_hop_slippage is called with
Legs == <<<<TokenA, TokenB>>, <<TokenB, TokenC>>, <<TokenC, TokenA>>, <<TokenA, TokenB>>>>

Paths == {SubSeq(Legs, 1, n) : n \in 0..MaxHops}

Amounts == {0, Tok(10)}

(***************************************************************************)
(* route_finder.py: find_best_route's scan                                 *)
(***************************************************************************)
\* the dict find_best_route returns
RouteFound(pair_address, dex_name, factory_address) ==
    [pair_address    |-> pair_address,
     dex_name        |-> dex_name,
     factory_address |-> factory_address]

\* a scan that goes on after the hinted exchange has answered with a pair
ScanOutcome_hint_passed_over(pair_address, at, n) ==
    IF pair_address # NoPair /\ at >= 1 THEN "return"
    ELSE IF at < n THEN "next"
    ELSE "none"

\* a scan that gives up at the first exchange without a pair
ScanOutcome_first_miss_ends(pair_address, at, n) ==
    IF pair_address # NoPair THEN "return"
    ELSE IF at = 0 THEN "next"
    ELSE "none"

\* a scan that runs to the end of the table whatever the exchanges answer
ScanOutcome_pair_passed_over(pair_address, at, n) ==
    IF at < n THEN "next"
    ELSE IF pair_address # NoPair THEN "return"
    ELSE "none"

\* after the probe at position at (0: the hint) of a table of n exchanges
ScanOutcome(pair_address, at, n) ==
    IF pair_address # NoPair THEN "return"
    ELSE IF at < n THEN "next"
    ELSE "none"

\* a read that got no answer
NoPool == [ok |-> FALSE, reserve0 |-> 0, reserve1 |-> 0, token0 |-> "", token1 |-> ""]

NoLogs == [ok |-> FALSE, logs |-> <<>>]

(***************************************************************************)
(* The service: one request at a time runs through the pipeline, one step  *)
(* per RPC-facing operation.                                               *)
(***************************************************************************)
VARIABLES
    w3_connections,  \* the keys of the three w3_connections dicts
    pc,              \* idle, route, reserves, history, hop, done
    entry,           \* the entry point being served: none, estimate, multi_hop
    args,            \* the arguments of the running calculate_safe_slippage
    scan,            \* find_best_route: 0 at the hint, i at the i-th factory
    probes,          \* the getPair calls find_best_route has issued, in order
    route,           \* calculate_safe_slippage locals
    reserves,
    local,
    result,          \* what calculate_safe_slippage returned
    response,        \* what the entry point gives its caller
    multi,           \* calculate_multi_hop_slippage locals
    trace,           \* the calls of the running request and what the chain answered
    last_failure,    \* how the latest failed estimate before this request ended
    calls            \* direct calls of the analyzers' pure methods: the latest
                     \* and, when it was of the same method, the one before

vars == <<w3_connections, pc, entry, args, scan, probes, route, reserves, local,
          result, response, multi, trace, last_failure, calls>>

NoArgs ==
    [chain_id |-> 0, token_in |-> "", token_out |-> "", amount_in |-> 0,
     route_hint |-> NoHint]

NoLocal ==
    [price_impact_bps |-> 0, liquidity_metrics |-> None, volatility_metrics |-> None]

\* amount_in: the caller's amount; prev: the amount and the reserves the hop
\* before was computed on; read_failed: a reserve read for an output amount
\* has failed
NoMulti ==
    [route |-> <<>>, hop |-> 0, total_slippage_bps |-> 0, current_amount |-> 0,
     hop_details |-> <<>>, amount_in |-> 0, prev |-> None, read_failed |-> FALSE]

\* attempts: the find_pair_on_dex calls of find_best_route and how each ended;
\* connects: the get_w3 calls, in order
NoTrace ==
    [route_calls |-> 0, reserve_calls |-> 0, history_calls |-> 0, reason |-> "",
     reserve_read |-> None, history_read |-> None, attempts |-> <<>>, connects |-> <<>>]

\* the objects that hold a w3_connections dict
Components == {"route_finder", "pool_analyzer", "trade_analyzer"}

\* how a get_w3 call on a cache went: the cached handle was reused, the chain
\* has no RPC URL, or a handle was set up, with the outcome conn
Connecting(cache, chain_id, conn) ==
    IF chain_id \in cache THEN "reused"
    ELSE IF ~get_rpc_url(chain_id) THEN "no_rpc_url"
    ELSE conn

\* the get_w3 call of the component by; established: some component of the
\* process held a handle for the chain when the call was made
Connect(by, chain_id, conn) ==
    [by          |-> by,
     chain_id    |-> chain_id,
     outcome     |-> Connecting(w3_connections[by], chain_id, conn),
     established |-> \E k \in Components : chain_id \in w3_connections[k]]

NoFailure == [reason |-> "", result |-> None, response |-> None]

NoCall == [method |-> "", given |-> None, returned |-> None]

NoCalls == [latest |-> NoCall, before |-> NoCall]

Init ==
    /\ w3_connections = [route_finder |-> {}, pool_analyzer |-> {}, trade_analyzer |-> {}]
    /\ pc = "idle"
    /\ entry = "none"
    /\ args = NoArgs
    /\ scan = 0
    /\ probes = <<>>
    /\ route = None
    /\ reserves = None
    /\ local = NoLocal
    /\ result = None
    /\ response = None
    /\ multi = NoMulti
    /\ trace = NoTrace
    /\ last_failure = NoFailure
    /\ calls = NoCalls

\* main.py: the answers of the estimate endpoint
BadRequest(detail) == [status |-> 400, detail |-> detail, body |-> None]

ServiceUnavailable ==
    [status |-> 503,
     detail |-> "Failed to calculate slippage. Route may not exist or RPC unavailable.",
     body   |-> None]

Ok(body) == [status |-> 200, detail |-> "", body |-> body]

\* what the estimate endpoint makes of calculate_safe_slippage's result
EstimateResponse(res) == IF res = None THEN ServiceUnavailable ELSE Ok(res)

\* the hop's entry of hop_details
HopDetail(token_in, token_out, res) ==
    [token_in     |-> token_in,
     token_out    |-> token_out,
     slippage_bps |-> res.min_safe_slip_bps,
     pair_address |-> res.pair_address]

\* calculate_safe_slippage returns res to the entry point e, whose multi-hop
\* locals are m
Leave(e, m, res) ==
    /\ result' = res
    /\ IF e = "estimate"
       THEN /\ response' = EstimateResponse(res)
            /\ multi' = m
            /\ pc' = "done"
       ELSE IF res = None
       THEN /\ response' = None
            /\ multi' = m
            /\ pc' = "done"
       ELSE /\ response' = None
            /\ multi' = [m EXCEPT
                   !.total_slippage_bps = @ + res.min_safe_slip_bps,
                   !.hop_details = Append(@, HopDetail(m.route[m.hop][1],
                                                       m.route[m.hop][2], res))]
            /\ pc' = "hop"

\* the entry point e calls calculate_safe_slippage(a): find_best_route starts
\* at the hint, or at the first factory, or finds the factory table empty
EnterAfter(e, m, a, connects) ==
    LET first == IF Truthy(a.route_hint) THEN 0 ELSE 1
        fresh == [NoTrace EXCEPT !.route_calls = 1, !.connects = connects]
    IN  /\ args' = a
        /\ scan' = first
        /\ probes' = <<>>
        /\ route' = None
        /\ reserves' = None
        /\ local' = NoLocal
        /\ IF first = 1 /\ Factories(a.chain_id) = <<>>
           THEN /\ trace' = [fresh EXCEPT !.reason = "NoRoute"]
                /\ Leave(e, m, None)
           ELSE /\ trace' = fresh
                /\ result' = None
                /\ response' = None
                /\ multi' = m
                /\ pc' = "route"

\* the call made by a caller that has made no get_w3 call of its own
Enter(e, m, a) == EnterAfter(e, m, a, <<>>)

\* POST /slippage/estimate up to the first RPC
StartEstimate(request) ==
    /\ pc = "idle"
    /\ entry' = "estimate"
    /\ UNCHANGED <<w3_connections, last_failure, calls>>
    /\ IF request.chain \notin CHAIN_CONFIG \/ ParseInt(request.amount_in).raised # ""
       THEN /\ response' =
                   IF request.chain \notin CHAIN_CONFIG
                   THEN BadRequest("Chain not supported")
                   ELSE BadRequest("Invalid amount_in")
            /\ pc' = "done"
            /\ UNCHANGED <<args, scan, probes, route, reserves, local, result, multi,
                           trace>>
       ELSE Enter("estimate", NoMulti,
                  [chain_id   |-> request.chain,
                   token_in   |-> request.token_in,
                   token_out  |-> request.token_out,
                   amount_in  |-> ParseInt(request.amount_in).value,
                   route_hint |-> request.route_hint])

\* calculate_multi_hop_slippage up to the first RPC of its first hop
StartMultiHop(chain_id, path, amount_in) ==
    /\ pc = "idle"
    /\ entry' = "multi_hop"
    /\ UNCHANGED <<w3_connections, last_failure, calls>>
    /\ IF path = <<>>
       THEN /\ response' = MultiHopResult(path, 0, <<>>)
            /\ multi' = [NoMulti EXCEPT !.current_amount = amount_in,
                                        !.amount_in = amount_in]
            /\ pc' = "done"
            /\ UNCHANGED <<args, scan, probes, route, reserves, local, result, trace>>
       ELSE Enter("multi_hop",
                  [NoMulti EXCEPT !.route = path, !.hop = 1,
                                  !.current_amount = amount_in, !.amount_in = amount_in],
                  [chain_id   |-> chain_id,
                   token_in   |-> path[1][1],
                   token_out  |-> path[1][2],
                   amount_in  |-> amount_in,
                   route_hint |-> NoHint])

\* how a find_pair_on_dex call ended: with a pair, or with None because there
\* was no connection, no factory of that name, an error of the call, or the
\* zero address
ProbeEnd(found, chain_id, answer) ==
    IF found.pair # NoPair THEN "pair"
    ELSE IF found.probed THEN (IF answer = "raise" THEN "error" ELSE "zero")
    ELSE IF chain_id \notin found.cache THEN "no_connection"
    ELSE "no_factory"

\* one find_pair_on_dex call of find_best_route and what follows it: the
\* route is returned, or the scan goes on, or the search ends with None
ProbeStep(dex_name, conn, answer) ==
    LET found == find_pair_on_dex(w3_connections.route_finder, args.chain_id, dex_name,
                                  args.token_in, args.token_out, conn, answer)
        outcome == ScanOutcome(found.pair, scan, Len(Factories(args.chain_id)))
        tried == [trace EXCEPT
                     !.attempts = Append(@, [at |-> scan, dex |-> lower(dex_name),
                                             ended |-> ProbeEnd(found, args.chain_id, answer)]),
                     !.connects = Append(@, Connect("route_finder", args.chain_id, conn))]
    IN  /\ w3_connections' = [w3_connections EXCEPT !.route_finder = found.cache]
        /\ probes' = IF found.probed
                     THEN Append(probes, [dex |-> lower(dex_name), at |-> scan,
                                          answer |-> answer])
                     ELSE probes
        /\ UNCHANGED <<entry, args, reserves, local, last_failure, calls>>
        /\ IF outcome = "return"
           THEN /\ route' = RouteFound(found.pair, dex_name,
                                       FactoryAddress(args.chain_id, dex_name))
                /\ pc' = "reserves"
                /\ trace' = tried
                /\ UNCHANGED <<scan, result, response, multi>>
           ELSE IF outcome = "next"
           THEN /\ scan' = scan + 1
                /\ trace' = tried
                /\ UNCHANGED <<pc, route, result, response, multi>>
           ELSE /\ trace' = [tried EXCEPT !.reason = "NoRoute"]
                /\ Leave(entry, multi, None)
                /\ UNCHANGED <<scan, route>>

\* find_best_route tries the hinted exchange
ProbeHint(conn, answer) ==
    /\ pc = "route"
    /\ scan = 0
    /\ answer \in GetPairAnswers(args.route_hint)
    /\ ProbeStep(args.route_hint, conn, answer)

\* find_best_route tries the next exchange of the chain's factory table
ProbeDex(conn, answer) ==
    /\ pc = "route"
    /\ scan >= 1
    /\ answer \in GetPairAnswers(Factories(args.chain_id)[scan])
    /\ ProbeStep(Factories(args.chain_id)[scan], conn, answer)

\* what a read met: the chain's answer, or no answer from a node out of reach
Heard(connected, answer, silence) == IF connected THEN answer ELSE silence

\* the reserve read of calculate_safe_slippage, with the price impact and the
\* liquidity metrics computed from it
GetPoolReserves(conn, answer) ==
    /\ pc = "reserves"
    /\ LET r == get_pool_reserves(w3_connections.pool_analyzer, args.chain_id,
                                  route.pair_address, args.token_in, args.token_out,
                                  conn, answer)
           read == [trace EXCEPT
                       !.reserve_calls = @ + 1,
                       !.connects = Append(@, Connect("pool_analyzer", args.chain_id, conn)),
                       !.reserve_read =
                           Heard(get_w3(w3_connections.pool_analyzer, args.chain_id,
                                        conn).w3, answer, NoPool)]
       IN  /\ w3_connections' = [w3_connections EXCEPT !.pool_analyzer = r.cache]
           /\ UNCHANGED <<entry, args, scan, probes, route, last_failure, calls>>
           /\ IF r.value = None
              THEN /\ trace' = [read EXCEPT !.reason = "ReservesUnavailable"]
                   /\ Leave(entry, multi, None)
                   /\ UNCHANGED <<reserves, local>>
              ELSE /\ trace' = read
                   /\ reserves' = r.value
                   /\ local' = [local EXCEPT
                          !.price_impact_bps =
                              FTrunc(FMul(calculate_price_impact(args.amount_in,
                                              r.value.reserve_in, r.value.reserve_out),
                                          F100)),
                          !.liquidity_metrics =
                              estimate_liquidity_depth(r.value.reserve_in,
                                  r.value.reserve_out, Decimals, Decimals)]
                   /\ pc' = "history"
                   /\ UNCHANGED <<result, response, multi>>

\* the history query of calculate_safe_slippage and the aggregation after it
GetVolatilityMetrics(conn, answer) ==
    /\ pc = "history"
    /\ LET v == get_volatility_metrics(w3_connections.trade_analyzer, args.chain_id,
                                       route.pair_address, 500, conn, answer)
           read == [trace EXCEPT
                       !.history_calls = @ + 1,
                       !.connects = Append(@, Connect("trade_analyzer", args.chain_id, conn)),
                       !.history_read =
                           Heard(get_w3(w3_connections.trade_analyzer, args.chain_id,
                                        conn).w3, answer, NoLogs)]
       IN  /\ w3_connections' = [w3_connections EXCEPT !.trade_analyzer = v.cache]
           /\ local' = [local EXCEPT !.volatility_metrics = v.metrics]
           /\ trace' = read
           /\ Leave(entry, multi,
                    Recommendation(route, reserves, local.price_impact_bps,
                                   local.liquidity_metrics, v.metrics))
           /\ UNCHANGED <<entry, args, scan, probes, route, reserves, last_failure, calls>>

\* calculate_multi_hop_slippage after a hop's recommendation: the reserves
\* are read again for the hop's output amount, then the next hop starts or
\* the result is returned
HopReserves(conn, answer) ==
    /\ pc = "hop"
    /\ LET r == get_pool_reserves(w3_connections.pool_analyzer, args.chain_id,
                                  result.pair_address, args.token_in, args.token_out,
                                  conn, answer)
           out == IF r.value = None
                  THEN [raised |-> "", value |-> multi.current_amount]
                  ELSE calculate_output_amount(multi.current_amount, r.value.reserve_in,
                                               r.value.reserve_out, 30)
           seen == [multi EXCEPT
                       !.prev = [amount_in |-> args.amount_in, reserves |-> reserves],
                       !.read_failed = @ \/ r.value = None]
           read == [trace EXCEPT
                       !.connects = Append(@, Connect("pool_analyzer", args.chain_id, conn))]
       IN  /\ w3_connections' = [w3_connections EXCEPT !.pool_analyzer = r.cache]
           /\ UNCHANGED <<entry, last_failure, calls>>
           /\ IF out.raised # ""
              THEN /\ response' = out
                   /\ multi' = seen
                   /\ pc' = "done"
                   /\ trace' = read
                   /\ UNCHANGED <<args, scan, probes, route, reserves, local, result>>
              ELSE IF multi.hop = Len(multi.route)
              THEN /\ response' = MultiHopResult(multi.route, multi.total_slippage_bps,
                                                 multi.hop_details)
                   /\ multi' = [seen EXCEPT !.current_amount = out.value]
                   /\ pc' = "done"
                   /\ trace' = read
                   /\ UNCHANGED <<args, scan, probes, route, reserves, local, result>>
              ELSE EnterAfter("multi_hop",
                              [seen EXCEPT !.current_amount = out.value, !.hop = @ + 1],
                              [chain_id   |-> args.chain_id,
                               token_in   |-> multi.route[multi.hop + 1][1],
                               token_out  |-> multi.route[multi.hop + 1][2],
                               amount_in  |-> out.value,
                               route_hint |-> NoHint],
                              <<Connect("pool_analyzer", args.chain_id, conn)>>)

\* the entry point has answered: the request's objects are discarded
Respond ==
    /\ pc = "done"
    /\ pc' = "idle"
    /\ entry' = "none"
    /\ args' = NoArgs
    /\ scan' = 0
    /\ probes' = <<>>
    /\ route' = None
    /\ reserves' = None
    /\ local' = NoLocal
    /\ result' = None
    /\ response' = None
    /\ multi' = NoMulti
    /\ trace' = NoTrace
    /\ last_failure' =
           IF entry = "estimate" /\ result = None /\ trace.reason # ""
           THEN [reason |-> trace.reason, result |-> result, response |-> response]
           ELSE last_failure
    /\ UNCHANGED <<w3_connections, calls>>

\* the service answering estimate requests
Next ==
    \/ \E request \in Requests : StartEstimate(request)
    \/ \E conn \in ConnOutcomes, answer \in AllPairAnswers : ProbeHint(conn, answer)
    \/ \E conn \in ConnOutcomes, answer \in AllPairAnswers : ProbeDex(conn, answer)
    \/ \E conn \in ConnOutcomes, answer \in PoolAnswers : GetPoolReserves(conn, answer)
    \/ \E conn \in ConnOutcomes, answer \in LogAnswers : GetVolatilityMetrics(conn, answer)
    \/ Respond

Spec == Init /\ [][Next]_vars

\* what the chain answers a caller of calculate_multi_hop_slippage
HopPoolAnswers ==
    {a \in PoolAnswers :
        ~a.ok \/ <<a.reserve0, a.reserve1>> \in {<<0, Tok(10)>>, <<Tok(1000), 1>>}}

HopLogAnswers == {a \in LogAnswers : a.logs \in {<<>>, BusyLogs}}

\* a caller of calculate_multi_hop_slippage
MultiHopNext ==
    \/ \E chain_id \in ChainIds, path \in Paths, amount_in \in Amounts :
           StartMultiHop(chain_id, path, amount_in)
    \/ \E conn \in ConnOutcomes, answer \in AllPairAnswers : ProbeDex(conn, answer)
    \/ \E conn \in ConnOutcomes, answer \in HopPoolAnswers : GetPoolReserves(conn, answer)
    \/ \E conn \in ConnOutcomes, answer \in HopLogAnswers : GetVolatilityMetrics(conn, answer)
    \/ \E conn \in ConnOutcomes, answer \in HopPoolAnswers : HopReserves(conn, answer)
    \/ Respond

MultiHopSpec == Init /\ [][MultiHopNext]_vars

(***************************************************************************)
(* Properties of calculate_safe_slippage and of the estimate endpoint,     *)
(* checked under Spec.                                                     *)
(***************************************************************************)
\* a getPair answer that names no pair
NoPairAnswers == {"raise", ZERO_ADDRESS}

\* C1: every recommendation calculate_safe_slippage returns has
\* 50 <= min_safe_slip_bps <= 5000, whatever the amount, the reserves
\* (reserve_in = 0 included) and the swap history
C1_MinSafeWithinBounds ==
    result # None =>
        /\ result.min_safe_slip_bps >= 50
        /\ result.min_safe_slip_bps <= 5000

\* a recommendation on an empty input reserve, held down to 5000 by the ceiling
C1_Witness ==
    /\ pc = "done"
    /\ result # None
    /\ args.amount_in >= 0
    /\ reserves.reserve_in = 0
    /\ result.price_impact_bps = 100 * 100
    /\ result.min_safe_slip_bps = 5000

\* C2: on success min_safe_slip_bps is
\* clamp(trunc(price_impact_bps * 1.5) + trunc(volatility_factor * 100)
\*       + liquidity_buffer + 20, 50, 5000)
\* with liquidity_buffer 50/25/10 for low/medium/high; a reserve of 1000
\* tokens, an amount of 10 tokens and an empty history give a price impact
\* of 100 bps and 180 bps
C2_MinSafeFormula ==
    result # None =>
        LET impact == result.price_impact_bps
            \* trunc(impact * 1.5) in integers
            base == IF impact >= 0 THEN (3 * impact) \div 2
                    ELSE -((3 * (-impact)) \div 2)
            volatility ==
                FTrunc(FMul(local.volatility_metrics.volatility_factor, FFromInt(100)))
            score == result.pool_depths.liquidity_score
            buffer == CASE score = "low" -> 50
                        [] score = "medium" -> 25
                        [] score = "high" -> 10
            total == base + volatility + buffer + 20
        IN  /\ result.min_safe_slip_bps =
                   IF total < 50 THEN 50 ELSE IF total > 5000 THEN 5000 ELSE total
            /\ (/\ reserves.reserve_in = Tok(1000)
                /\ args.amount_in = Tok(10)
                /\ local.volatility_metrics.total_swaps = 0)
               => /\ result.price_impact_bps = 100
                  /\ result.min_safe_slip_bps = 180

\* the worked example: 1000 tokens of reserve, 10 tokens in, no swaps logged
C2_Witness ==
    /\ pc = "done"
    /\ result # None
    /\ reserves.reserve_in = Tok(1000)
    /\ args.amount_in = Tok(10)
    /\ trace.history_read = [ok |-> TRUE, logs |-> <<>>]
    /\ result.min_safe_slip_bps = 180

\* C3: when a route_hint is given and the hinted exchange answers with a
\* non-zero pair address, find_best_route returns that route and queries no
\* other exchange: the hint's probe is the only one
C3_HintedRouteOnly ==
    (/\ Truthy(args.route_hint)
     /\ Len(probes) >= 1
     /\ probes[1].at = 0
     /\ probes[1].answer \notin NoPairAnswers)
    => /\ Len(probes) = 1
       /\ route # None
       /\ route.pair_address = probes[1].answer
       /\ lower(route.dex_name) = lower(args.route_hint)
       /\ probes[1].dex = lower(args.route_hint)

\* the hint SushiSwap resolved the pair at the first and only probe
C3_Witness ==
    /\ pc = "reserves"
    /\ args.route_hint = "SushiSwap"
    /\ Len(probes) = 1
    /\ probes[1].at = 0
    /\ route.pair_address = PairOf("sushiswap")

\* C4: without a hint find_best_route probes the chain's exchanges in table
\* order and returns the pair and the name of the first one whose probe
\* yields a non-zero pair; none after it is probed; the result is None
\* exactly when no exchange yields a pair
C4_FirstFoundWins ==
    ~Truthy(args.route_hint) =>
        /\ \A i \in 1..Len(probes) :
               /\ probes[i].at \in 1..Len(Factories(args.chain_id))
               /\ probes[i].dex = Factories(args.chain_id)[probes[i].at]
               /\ i > 1 => probes[i - 1].at < probes[i].at
               /\ i < Len(probes) => probes[i].answer \in NoPairAnswers
        /\ route # None =>
               /\ Len(probes) >= 1
               /\ probes[Len(probes)].answer \notin NoPairAnswers
               /\ route.pair_address = probes[Len(probes)].answer
               /\ route.dex_name = probes[Len(probes)].dex
        /\ pc \in {"reserves", "history", "done"} =>
               (route = None <=> \A i \in 1..Len(probes) : probes[i].answer \in NoPairAnswers)

\* the first exchange has no pair, the second has: the second's route is returned
C4_Witness ==
    /\ pc = "reserves"
    /\ args.route_hint = NoHint
    /\ Len(probes) = 2
    /\ probes[1] = [dex |-> "uniswap_v2", at |-> 1, answer |-> ZERO_ADDRESS]
    /\ route.dex_name = "sushiswap"
    /\ route.pair_address = PairOf("sushiswap")

\* C5: the stages of one calculate_safe_slippage request are ordered and
\* gated: no reserve read and no history query after route discovery found
\* nothing, no history query and no recommendation after a reserve read that
\* failed or whose pool holds token_in on neither side, and no stage runs
\* twice
C5_StagesGated ==
    /\ trace.route_calls <= 1
    /\ trace.reserve_calls <= 1
    /\ trace.history_calls <= 1
    /\ trace.reserve_calls = 1 => trace.route_calls = 1 /\ route # None
    /\ trace.history_calls = 1 => trace.reserve_calls = 1 /\ reserves # None
    /\ result # None => trace.history_calls = 1
    /\ (pc = "done" /\ trace.route_calls = 1 /\ route = None)
       => /\ trace.reserve_calls = 0
          /\ trace.history_calls = 0
          /\ result = None
    /\ (/\ trace.reserve_calls = 1
        /\ \/ ~trace.reserve_read.ok
           \/ lower(args.token_in) \notin {lower(trace.reserve_read.token0),
                                           lower(trace.reserve_read.token1)})
       => /\ pc = "done"
          /\ trace.history_calls = 0
          /\ result = None

\* the pool read holds token_in on neither side: the request ends there
C5_Witness ==
    /\ pc = "done"
    /\ args.token_in = TokenA
    /\ trace.reserve_calls = 1
    /\ trace.reserve_read.ok
    /\ trace.reserve_read.token0 = TokenB
    /\ trace.reserve_read.token1 = TokenC
    /\ trace.history_calls = 0
    /\ result = None

\* C6: a failed estimate tells its reason: what calculate_safe_slippage
\* returns, and what the endpoint answers, when no exchange has the pair
\* differs from what they give when the reserves cannot be read; a success
\* carries the eight fields of the recommendation
C6_DistinctFailureReasons ==
    (pc = "done" /\ entry = "estimate") =>
        /\ (/\ trace.reason # ""
            /\ last_failure.reason # ""
            /\ trace.reason # last_failure.reason)
           => /\ result # last_failure.result
              /\ response # last_failure.response
        /\ response.status = 200 =>
               DOMAIN response.body =
                   {"min_safe_slip_bps", "pool_depths", "recent_trade_size_p95",
                    "price_impact_bps", "volatility_factor", "recommended_max_trade",
                    "route_used", "pair_address"}

\* C7: when the route and the reserves are obtained and the swap history
\* cannot be retrieved, calculate_safe_slippage still returns a
\* recommendation, with volatility_factor 0, recent_trade_size_p95 0 and the
\* min_safe_slip_bps of an empty history
C7_HistoryFailureAbsorbed ==
    (trace.history_calls = 1 /\ ~trace.history_read.ok) =>
        /\ result # None
        /\ result.volatility_factor = FZero
        /\ result.recent_trade_size_p95 = 0
        /\ result.min_safe_slip_bps =
               min_safe_slip_bps(result.price_impact_bps,
                                 result.pool_depths.liquidity_score,
                                 analyze_trade_sizes(<<>>).volatility_factor)

\* the history query raised on a reachable node and the estimate was answered
C7_Witness ==
    /\ pc = "done"
    /\ entry = "estimate"
    /\ args.chain_id \in w3_connections.trade_analyzer
    /\ trace.history_calls = 1
    /\ ~trace.history_read.ok
    /\ response.status = 200
    /\ response.body.min_safe_slip_bps = 180

(***************************************************************************)
(* Properties of calculate_multi_hop_slippage, checked under MultiHopSpec. *)
(***************************************************************************)
\* the sum of the hops' slippage_bps
RECURSIVE SlippageSum(_)
SlippageSum(hop_details) ==
    IF hop_details = <<>> THEN 0
    ELSE Head(hop_details).slippage_bps + SlippageSum(Tail(hop_details))

\* calculate_multi_hop_slippage has returned its dict
MultiHopSucceeded ==
    /\ pc = "done"
    /\ entry = "multi_hop"
    /\ DOMAIN response = {"total_slippage_bps", "num_hops", "hop_details"}

\* C8: on success calculate_multi_hop_slippage returns total_slippage_bps =
\* min(5000, sum of the hops' min_safe_slip_bps), never above 5000, and
\* hop_details holds one entry per leg of the path, in path order, with
\* num_hops the length of the path
C8_TotalCapped ==
    /\ (pc = "hop" /\ entry = "multi_hop") =>
           /\ Len(multi.hop_details) = multi.hop
           /\ multi.hop_details[multi.hop].slippage_bps = result.min_safe_slip_bps
           /\ multi.total_slippage_bps = SlippageSum(multi.hop_details)
    /\ MultiHopSucceeded =>
           /\ response.total_slippage_bps <= 5000
           /\ response.total_slippage_bps =
                  IF SlippageSum(response.hop_details) < 5000
                  THEN SlippageSum(response.hop_details)
                  ELSE 5000
           /\ response.num_hops = Len(multi.route)
           /\ Len(response.hop_details) = Len(multi.route)
           /\ \A i \in 1..Len(multi.route) :
                  /\ response.hop_details[i].token_in = multi.route[i][1]
                  /\ response.hop_details[i].token_out = multi.route[i][2]
                  /\ response.hop_details[i].slippage_bps \in 50..5000

\* two hops at the ceiling: the sum of 10000 is returned as 5000
C8_Witness ==
    /\ MultiHopSucceeded
    /\ response.num_hops = 2
    /\ SlippageSum(response.hop_details) = 2 * 5000
    /\ response.total_slippage_bps = 5000

\* C9: if a reserve fetch of any hop fails, the read for the hop's output
\* amount included, calculate_multi_hop_slippage fails with no result
C9_FailedReadFailsCall ==
    (pc = "done" /\ entry = "multi_hop" /\ multi.read_failed) => response = None

\* C10: hop 1 is given the caller's amount_in, and hop i+1 is given
\* calculate_output_amount(amount_in of hop i, reserve_in_i, reserve_out_i)
\* at a fee of 30 bps, on the reserves hop i's recommendation was computed on
C10_NextAmountFromHopReserves ==
    (entry = "multi_hop" /\ pc \in {"route", "reserves", "history", "hop"}) =>
        IF multi.hop = 1
        THEN args.amount_in = multi.amount_in
        ELSE LET out == calculate_output_amount(multi.prev.amount_in,
                                                multi.prev.reserves.reserve_in,
                                                multi.prev.reserves.reserve_out, 30)
             IN  out.raised = "" => args.amount_in = out.value

(***************************************************************************)
(* Further properties of the estimate endpoint, checked under Spec.        *)
(***************************************************************************)
\* C11: an estimate request whose amount_in is not numeric or is negative is
\* rejected as an invalid amount before any route discovery, reserve read or
\* history query: calculate_safe_slippage is never entered with a negative
\* amount_in and never returns a recommendation for one
C11_InvalidAmountRejected ==
    entry = "estimate" =>
        /\ args.amount_in >= 0
        /\ result # None => args.amount_in >= 0
        /\ (pc = "done" /\ response.status = 400) =>
               /\ trace = NoTrace
               /\ probes = <<>>
               /\ result = None

\* C16: in find_best_route a find_pair_on_dex call that fails (no
\* connection, an error of the call) counts as no pair on that exchange:
\* the scan goes on with the next exchange in order, the first exchange
\* that has a pair is returned also after failures, and the search ends
\* with a route or with None, never with an exception
C16_ProbeFailureNotFatal ==
    LET tried == trace.attempts
        n == Len(tried)
    IN  /\ \A i \in 1..n :
               /\ i < n => /\ tried[i].ended # "pair"
                           /\ tried[i + 1].at = tried[i].at + 1
               /\ (i = n /\ tried[i].ended # "pair") =>
                      \/ pc = "route" /\ scan = tried[i].at + 1
                      \/ /\ tried[i].at = Len(Factories(args.chain_id))
                         /\ route = None
                         /\ trace.reason = "NoRoute"
               /\ (i = n /\ tried[i].ended = "pair") =>
                      /\ route # None
                      /\ lower(route.dex_name) = tried[i].dex
        /\ route # None => (n >= 1 /\ tried[n].ended = "pair")
        /\ (pc = "done" /\ entry = "estimate") => response.status \in {200, 400, 503}

\* the first exchange could not be reached, the second has the pair and is returned
C16_Witness ==
    /\ pc = "reserves"
    /\ args.route_hint = NoHint
    /\ Len(trace.attempts) = 2
    /\ trace.attempts[1].ended = "no_connection"
    /\ trace.attempts[2].ended = "pair"
    /\ route.dex_name = "sushiswap"
    /\ route.pair_address = PairOf("sushiswap")

\* C17: get_pool_reserves attributes the pool's reserves by a
\* case-insensitive match of token_in with the pool's tokens: (reserve0,
\* reserve1) when it is token0, (reserve1, reserve0) when it is token1, None
\* when it is neither; a reserve of 0 is returned only when the chain
\* reported 0 on that side
C17_ReservesAttributed ==
    (trace.reserve_calls = 1 /\ entry = "estimate") =>
        LET read == trace.reserve_read
        IN  IF ~read.ok THEN reserves = None /\ result = None
            ELSE IF lower(args.token_in) = lower(read.token0)
            THEN /\ reserves # None
                 /\ reserves.reserve_in = read.reserve0
                 /\ reserves.reserve_out = read.reserve1
            ELSE IF lower(args.token_in) = lower(read.token1)
            THEN /\ reserves # None
                 /\ reserves.reserve_in = read.reserve1
                 /\ reserves.reserve_out = read.reserve0
            ELSE reserves = None /\ result = None

\* token_in, given in lower case, is the pool's token1: the reserves are swapped
C17_Witness ==
    /\ pc = "history"
    /\ args.token_in = "0xbb"
    /\ trace.reserve_read.ok
    /\ trace.reserve_read.token0 = TokenA
    /\ trace.reserve_read.token1 = TokenB
    /\ trace.reserve_read.reserve0 = Tok(1000)
    /\ reserves = [reserve_in |-> 1, reserve_out |-> Tok(1000)]

\* C19: for reserve_in > 0 the price_impact_bps of calculate_safe_slippage
\* is floor(10000 * amount_in / reserve_in), for every amount and reserve,
\* also where amount_in / reserve_in has no exact binary representation
C19_PriceImpactBpsFloor ==
    (/\ pc \in {"history", "done", "hop"}
     /\ reserves # None
     /\ reserves.reserve_in > 0
     /\ args.amount_in >= 0)
    => local.price_impact_bps = (10000 * args.amount_in) \div reserves.reserve_in

(***************************************************************************)
(* A caller of the analyzers' methods: calculate_output_amount,            *)
(* calculate_price_impact and estimate_liquidity_depth of PoolAnalyzer and *)
(* analyze_trade_sizes and get_recent_swaps of TradeHistoryAnalyzer,       *)
(* called directly on arguments of the caller's choice.  Reserves given to *)
(* estimate_liquidity_depth are in wei of an 18-decimal token.             *)
(***************************************************************************)
\* an optional argument: <<>> when omitted, <<v>> when given
Omitted == <<>>

DefaultArg(given, default) == IF given = Omitted THEN default ELSE given[1]

\* tokens whole tokens and wei more, at 18 decimals
Wei(tokens, wei) == BAdd(BMul(BFromInt(tokens), BPow10(18)), BFromInt(wei))

OutputCalls ==
    {[amount_in |-> a, reserve_in |-> r[1], reserve_out |-> r[2], fee_bps |-> f] :
        a \in {0, 1, Tok(10), Tok(100)},
        r \in {<<0, Tok(10)>>, <<Tok(100), Tok(200)>>, <<Tok(1), Tok(1000)>>, <<Tok(100), 0>>},
        f \in {Omitted, <<30>>, <<100>>}}

ImpactCalls ==
    {[amount_in |-> a, reserve_in |-> r, reserve_out |-> o] :
        a \in {0, 29, Tok(10)}, r \in {0, 100, Tok(1000)}, o \in {0, Tok(10)}}

DepthCalls ==
    {[reserve_in |-> Wei(t, w), reserve_out |-> Wei(o, 0)] :
        t \in {0, 10, 100, 123}, w \in {0, 1, 345678901}, o \in {0, 2000}}

SizeLists ==
    { <<>>, <<0>>, <<0, 0>>, <<5>>, <<0, 5, 0>>, <<7, 7, 7>>, <<1, 2>>, <<2, 0, 1>>,
      <<10, 20, 20, 30, 1000>>, <<1000, 30, 20, 20, 10>>, <<20, 1000, 10, 30, 20>>,
      <<10, 0, 20, 20, 0, 30, 1000>> }

\* what each method returns on each of the caller's arguments, computed once
OutputResults ==
    [g \in OutputCalls |->
        calculate_output_amount(g.amount_in, g.reserve_in, g.reserve_out,
                                DefaultArg(g.fee_bps, 30))]

ImpactResults ==
    [g \in ImpactCalls |-> calculate_price_impact(g.amount_in, g.reserve_in, g.reserve_out)]

DepthResults ==
    [g \in DepthCalls |->
        LiquidityDepth(g.reserve_in, g.reserve_out, 18, 18)]

SizeResults == [swaps \in SizeLists |-> analyze_trade_sizes(swaps)]

\* the call is recorded; the service's objects are not touched
Called(method, given, returned) ==
    /\ calls' = [latest |-> [method |-> method, given |-> given, returned |-> returned],
                 before |-> IF calls.latest.method = method THEN calls.latest ELSE NoCall]
    /\ UNCHANGED <<w3_connections, pc, entry, args, scan, probes, route, reserves, local,
                   result, response, multi, trace, last_failure>>

CalculateOutputAmount(given) ==
    /\ pc = "idle"
    /\ Called("calculate_output_amount", given, OutputResults[given])

CalculatePriceImpact(given) ==
    /\ pc = "idle"
    /\ Called("calculate_price_impact", given, ImpactResults[given])

EstimateLiquidityDepth(given) ==
    /\ pc = "idle"
    /\ Called("estimate_liquidity_depth", given, DepthResults[given])

AnalyzeTradeSizes(swaps) ==
    /\ pc = "idle"
    /\ Called("analyze_trade_sizes", [swaps |-> swaps], SizeResults[swaps])

\* the calls of get_recent_swaps, and what the node may answer to them
SwapQueries ==
    {[chain_id |-> c, pair_address |-> PairOf("sushiswap"), blocks_back |-> b] :
        c \in ChainIds, b \in {Omitted, <<0>>, <<500>>}}

HeadAnswers == {Raised, Answered(0), Answered(300), Answered(HeadBlock)}

\* a payload of five words among payloads of four, and payloads cut short
QueriedLogs ==
    LogLists \cup
    { <<BadLog, <<Tok(1), 0>>>>,
      <<SwapLog(3, 4) \o <<7>>, <<Tok(1), 0, 0>>, SwapLog(0, 5)>> }

LogsAnswers == {Raised} \cup {Answered(l) : l \in QueriedLogs}

\* get_recent_swaps called directly: the analyzer's connection cache is the
\* one object it may change
GetRecentSwaps(given, conn, head, logs) ==
    /\ pc = "idle"
    /\ LET r == RecentSwaps(w3_connections.trade_analyzer, given.chain_id,
                            given.pair_address, DefaultArg(given.blocks_back, 1000),
                            conn, head, logs)
       IN  /\ w3_connections' = [w3_connections EXCEPT !.trade_analyzer = r.cache]
           /\ calls' = [latest |-> [method   |-> "get_recent_swaps",
                                     given    |-> [call |-> given, head |-> head,
                                                   logs |-> logs],
                                     returned |-> [swaps |-> r.swaps,
                                                   filter_params |-> r.filter_params]],
                        before |-> NoCall]
    /\ UNCHANGED <<pc, entry, args, scan, probes, route, reserves, local,
                   result, response, multi, trace, last_failure>>

AnalyzerNext ==
    \/ \E given \in OutputCalls : CalculateOutputAmount(given)
    \/ \E given \in ImpactCalls : CalculatePriceImpact(given)
    \/ \E given \in DepthCalls : EstimateLiquidityDepth(given)
    \/ \E swaps \in SizeLists : AnalyzeTradeSizes(swaps)
    \/ \E given \in SwapQueries, conn \in ConnOutcomes, head \in HeadAnswers,
          logs \in LogsAnswers : GetRecentSwaps(given, conn, head, logs)

AnalyzerSpec == Init /\ [][AnalyzerNext]_vars

(***************************************************************************)
(* Properties of the pure methods, checked under AnalyzerSpec.             *)
(***************************************************************************)
Latest == calls.latest

Before == calls.before

\* a * b < c * d, a * b = c * d, a * b > c * d as -1, 0, 1, for numbers >= 0
CmpProducts(a, b, c, d) ==
    BCmp(BMul(BFromInt(a), BFromInt(b)), BMul(BFromInt(c), BFromInt(d)))

\* the call before was on the same reserves and fee, with no larger an amount
SameSwapSmallerAmount ==
    /\ Before.method = "calculate_output_amount"
    /\ Before.given.reserve_in = Latest.given.reserve_in
    /\ Before.given.reserve_out = Latest.given.reserve_out
    /\ DefaultArg(Before.given.fee_bps, 30) = DefaultArg(Latest.given.fee_bps, 30)
    /\ Before.given.amount_in <= Latest.given.amount_in

\* C12, as claimed: for reserve_in > 0 and fee_bps > 0 calculate_output_amount
\* is non-decreasing in amount_in, and for every amount_in >= 0 its result is
\* strictly less than amount_in * reserve_out / reserve_in
C12_OutputBelowLinear ==
    (/\ Latest.method = "calculate_output_amount"
     /\ Latest.given.reserve_in > 0
     /\ DefaultArg(Latest.given.fee_bps, 30) > 0
     /\ Latest.given.amount_in >= 0)
    => /\ Latest.returned.raised = ""
       /\ CmpProducts(Latest.returned.value, Latest.given.reserve_in,
                      Latest.given.amount_in, Latest.given.reserve_out) < 0
       /\ SameSwapSmallerAmount => Before.returned.value <= Latest.returned.value

\* C12, amended: for reserve_in > 0 and fee_bps > 0 calculate_output_amount
\* is non-decreasing in amount_in >= 0; its result is strictly less than
\* amount_in * reserve_out / reserve_in when amount_in > 0 and reserve_out > 0,
\* and is 0, equal to that bound, when amount_in = 0 or reserve_out = 0
C12_OutputBelowLinearUnlessZero ==
    (/\ Latest.method = "calculate_output_amount"
     /\ Latest.given.reserve_in > 0
     /\ DefaultArg(Latest.given.fee_bps, 30) > 0
     /\ Latest.given.amount_in >= 0)
    => /\ Latest.returned.raised = ""
       /\ IF Latest.given.amount_in > 0 /\ Latest.given.reserve_out > 0
          THEN CmpProducts(Latest.returned.value, Latest.given.reserve_in,
                           Latest.given.amount_in, Latest.given.reserve_out) < 0
          ELSE Latest.returned.value = 0
       /\ SameSwapSmallerAmount => Before.returned.value <= Latest.returned.value

\* one wei, then ten tokens into the same pool: more comes out, and less
\* than the pool's price would give
C12_Witness ==
    /\ Latest.method = "calculate_output_amount"
    /\ Latest.given = [amount_in |-> Tok(10), reserve_in |-> Tok(100),
                       reserve_out |-> Tok(200), fee_bps |-> <<30>>]
    /\ SameSwapSmallerAmount
    /\ Before.given.amount_in = 1
    /\ Before.returned.value = 1
    /\ Latest.returned.value > 1
    /\ Latest.returned.value < Tok(20)

\* C13: calculate_price_impact returns 0 for amount_in = 0 whenever
\* reserve_in > 0, and the sentinel 100 whenever reserve_in = 0, for every
\* amount_in (0 included) and every reserve_out, with no division by zero
C13_PriceImpactEdges ==
    Latest.method = "calculate_price_impact" =>
        /\ Latest.given.reserve_in = 0 => Latest.returned = F100
        /\ (Latest.given.reserve_in > 0 /\ Latest.given.amount_in = 0)
               => Latest.returned = FZero

\* nothing swapped into a pool with an empty input reserve: 100 percent
C13_Witness ==
    /\ Latest.method = "calculate_price_impact"
    /\ Latest.given = [amount_in |-> 0, reserve_in |-> 0, reserve_out |-> Tok(10)]
    /\ Latest.returned = F100

Positive(swaps) == SelectSeq(swaps, LAMBDA t : t > 0)

\* C14: analyze_trade_sizes returns total_swaps = the number of swaps passed
\* in, zero-size swaps included; p50 = p95 = p99 = 0 and volatility_factor 0
\* when no swap has a positive size; and zero-size swaps change no field of
\* the result but total_swaps
C14_TotalSwapsCountsAll ==
    Latest.method = "analyze_trade_sizes" =>
        /\ Latest.returned.total_swaps = Len(Latest.given.swaps)
        /\ Positive(Latest.given.swaps) = <<>> =>
               /\ Latest.returned.trade_size_p50 = 0
               /\ Latest.returned.trade_size_p95 = 0
               /\ Latest.returned.trade_size_p99 = 0
               /\ Latest.returned.volatility_factor = FZero
        /\ (/\ Before.method = "analyze_trade_sizes"
            /\ Positive(Before.given.swaps) = Positive(Latest.given.swaps))
           => [Latest.returned EXCEPT !.total_swaps = 0]
                  = [Before.returned EXCEPT !.total_swaps = 0]

\* one swap of size 5, then the same with two zero-size swaps around it
C14_Witness ==
    /\ Latest.method = "analyze_trade_sizes"
    /\ Latest.given.swaps = <<0, 5, 0>>
    /\ Before.method = "analyze_trade_sizes"
    /\ Before.given.swaps = <<5>>
    /\ Latest.returned.total_swaps = 3
    /\ Before.returned.total_swaps = 1
    /\ Latest.returned.trade_size_p50 = 5

\* floor of the interpolation between the order statistics of the sorted
\* sizes arr around rank (n - 1) * q / 100, in exact arithmetic
ExactPercentile(arr, q) ==
    IF ((Len(arr) - 1) * q) % 100 = 0
    THEN arr[(((Len(arr) - 1) * q) \div 100) + 1]
    ELSE (100 * arr[(((Len(arr) - 1) * q) \div 100) + 1]
          + (arr[(((Len(arr) - 1) * q) \div 100) + 2]
             - arr[(((Len(arr) - 1) * q) \div 100) + 1]) * (((Len(arr) - 1) * q) % 100))
         \div 100

\* C15: for a non-empty set of positive sizes analyze_trade_sizes returns as
\* p50, p95, p99 the linear interpolation between the adjacent order
\* statistics of the sorted sizes at rank (n - 1) * q / 100, truncated to an
\* integer, whatever the order of the list; [10, 20, 20, 30, 1000] in any
\* order gives p50 = 20; and min <= p50 <= p95 <= p99 <= max
C15_PercentilesInterpolated ==
    (Latest.method = "analyze_trade_sizes" /\ Positive(Latest.given.swaps) # <<>>) =>
        LET arr == Sorted(Positive(Latest.given.swaps))
            out == Latest.returned
        IN  /\ out.trade_size_p50 = ExactPercentile(arr, 50)
            /\ out.trade_size_p95 = ExactPercentile(arr, 95)
            /\ out.trade_size_p99 = ExactPercentile(arr, 99)
            /\ arr = <<10, 20, 20, 30, 1000>> => out.trade_size_p50 = 20
            /\ arr[1] <= out.trade_size_p50
            /\ out.trade_size_p50 <= out.trade_size_p95
            /\ out.trade_size_p95 <= out.trade_size_p99
            /\ out.trade_size_p99 <= arr[Len(arr)]
            /\ (/\ Before.method = "analyze_trade_sizes"
                /\ Sorted(Positive(Before.given.swaps)) = arr)
               => /\ Before.returned.trade_size_p50 = out.trade_size_p50
                  /\ Before.returned.trade_size_p95 = out.trade_size_p95
                  /\ Before.returned.trade_size_p99 = out.trade_size_p99

\* the fee-adjusted input of the latest calculate_output_amount call
EffectiveInput == Latest.given.amount_in * (10000 - DefaultArg(Latest.given.fee_bps, 30))

\* the returned value is floor(numerator / denominator), stated by products:
\* value * denominator <= numerator < (value + 1) * denominator
IsExactFloor ==
    /\ CmpProducts(Latest.returned.value, (Latest.given.reserve_in * 10000) + EffectiveInput,
                   EffectiveInput, Latest.given.reserve_out) <= 0
    /\ CmpProducts(Latest.returned.value + 1, (Latest.given.reserve_in * 10000) + EffectiveInput,
                   EffectiveInput, Latest.given.reserve_out) > 0

\* C18, as claimed: calculate_output_amount returns
\* floor(amount_in * (10000 - fee_bps) * reserve_out
\*       / (reserve_in * 10000 + amount_in * (10000 - fee_bps)))
\* in exact integer arithmetic, fee_bps being 30 when omitted, and for
\* reserve_out > 0 the result is strictly less than reserve_out
C18_ExactFloorBelowReserve ==
    (Latest.method = "calculate_output_amount" /\ Latest.returned.raised = "") =>
        /\ IsExactFloor
        /\ Latest.given.reserve_out > 0 => Latest.returned.value < Latest.given.reserve_out

\* C18, amended: the same exact floor, fee_bps being 30 when omitted; for
\* amount_in >= 0, reserve_in > 0 and reserve_out > 0 the result is strictly
\* less than reserve_out, and on reserve_in = 0 an amount_in > 0 takes out
\* reserve_out whole
C18_ExactFloorBelowReserveOfFundedPool ==
    (Latest.method = "calculate_output_amount" /\ Latest.returned.raised = "") =>
        /\ IsExactFloor
        /\ (Latest.given.reserve_out > 0 /\ Latest.given.reserve_in > 0)
               => Latest.returned.value < Latest.given.reserve_out
        /\ (Latest.given.reserve_in = 0 /\ Latest.given.amount_in > 0)
               => Latest.returned.value = Latest.given.reserve_out

\* ten tokens swapped at the default fee: part of the output reserve comes out
C18_Witness ==
    /\ Latest.method = "calculate_output_amount"
    /\ Latest.given = [amount_in |-> Tok(10), reserve_in |-> Tok(100),
                       reserve_out |-> Tok(200), fee_bps |-> Omitted]
    /\ Latest.returned.raised = ""
    /\ Latest.returned.value > 0
    /\ Latest.returned.value < Tok(200)
    /\ IsExactFloor

\* C20: estimate_liquidity_depth scores reserve_in, in token units, with
\* strict thresholds: high iff above 100 tokens, medium iff above 10 and at
\* most 100, low otherwise (100 tokens are medium, 10 tokens are low); so the
\* liquidity buffer 50/25/10 never grows with reserve_in; and
\* recommended_max_trade = floor(reserve_in / 100)
C20_DepthThresholdsAndMaxTrade ==
    Latest.method = "estimate_liquidity_depth" =>
        /\ Latest.returned.liquidity_score =
               IF FCmp(Latest.returned.reserve_in_tokens, F100) > 0 THEN "high"
               ELSE IF FCmp(Latest.returned.reserve_in_tokens, F10) > 0 THEN "medium"
               ELSE "low"
        /\ Latest.given.reserve_in = Wei(100, 0) => Latest.returned.liquidity_score = "medium"
        /\ Latest.given.reserve_in = Wei(10, 0) => Latest.returned.liquidity_score = "low"
        /\ Latest.given.reserve_in = Wei(123, 0) => Latest.returned.liquidity_score = "high"
        /\ Latest.returned.recommended_max_trade = BDivSmall(Latest.given.reserve_in, 100)
        /\ (/\ Before.method = "estimate_liquidity_depth"
            /\ BCmp(Before.given.reserve_in, Latest.given.reserve_in) <= 0)
           => liquidity_buffer_bps(Before.returned.liquidity_score)
                  >= liquidity_buffer_bps(Latest.returned.liquidity_score)
(***************************************************************************)
(* Properties of get_recent_swaps, checked under AnalyzerSpec.             *)
(***************************************************************************)
\* the payloads that hold the four words of a Swap event
Decodable(logs) == SelectSeq(logs, LAMBDA data : Len(data) >= 4)

\* C21: get_recent_swaps queries the block window
\* [max(0, head - blocks_back), head]; if the connection, the head-block read
\* or the log query fails it returns the empty list; a log whose payload
\* does not decode is skipped and every other log of the query is returned,
\* in log order, with trade_size = amount0In + amount1In
C21_RecentSwapsWindowAndSkips ==
    Latest.method = "get_recent_swaps" =>
        LET call == Latest.given.call
            head == Latest.given.head
            logs == Latest.given.logs
            blocks_back == DefaultArg(call.blocks_back, 1000)
            asked == Latest.returned.filter_params
            swaps == Latest.returned.swaps
            connected == call.chain_id \in w3_connections.trade_analyzer
        IN  /\ asked # None <=> (connected /\ ~head.raised)
            /\ asked # None =>
                   /\ asked.toBlock = head.value
                   /\ asked.fromBlock = IF head.value > blocks_back
                                        THEN head.value - blocks_back ELSE 0
            /\ (~connected \/ head.raised \/ logs.raised) => swaps = <<>>
            /\ (connected /\ ~head.raised /\ ~logs.raised) =>
                   /\ Len(swaps) = Len(Decodable(logs.value))
                   /\ \A i \in 1..Len(swaps) :
                          /\ swaps[i].amount0In = Decodable(logs.value)[i][1]
                          /\ swaps[i].amount1In = Decodable(logs.value)[i][2]
                          /\ swaps[i].trade_size =
                                 Decodable(logs.value)[i][1] + Decodable(logs.value)[i][2]

\* a head below the default look-back, and an undecodable log between
\* decodable ones: the window starts at block 0 and three swaps come back
C21_Witness ==
    /\ Latest.method = "get_recent_swaps"
    /\ Latest.given.call.blocks_back = Omitted
    /\ Latest.given.head = Answered(300)
    /\ Latest.given.logs = Answered(BusyLogs)
    /\ Latest.returned.filter_params.fromBlock = 0
    /\ Latest.returned.filter_params.toBlock = 300
    /\ Len(Latest.returned.swaps) = 3
    /\ Latest.returned.swaps[2].trade_size = Tok(2)

(***************************************************************************)
(* Properties of the connection caches, checked under Spec.                *)
(***************************************************************************)
\* the components that hold a handle for the chain
Holders(chain_id) == {k \in Components : chain_id \in w3_connections[k]}

\* C22: across any sequence of requests at most one connection handle per
\* chain id is created and held in the process: once a handle for a chain
\* has been established, every later RPC operation on that chain (route
\* probe, reserve read, log query) reuses it, and connection setup is not
\* repeated for that chain
C22_OneHandlePerChain ==
    /\ \A chain_id \in ChainIds : Cardinality(Holders(chain_id)) <= 1
    /\ \A i \in 1..Len(trace.connects) :
           trace.connects[i].established => trace.connects[i].outcome = "reused"

\* the cache of component k has changed in the step
Cached(k) == w3_connections'[k] # w3_connections[k]

\* the get_w3 call made in the step
Connected == trace'.connects[Len(trace'.connects)]

\* C23: a connection cache has an entry for a chain only if setting up that
\* handle succeeded and its liveness check passed: a failed or raising
\* attempt leaves the cache without an entry for the chain, so that the next
\* get_w3 call for the chain sets up a connection again, and a chain id
\* absent from the registry never gets an entry
C23_OnlyLiveHandlesCached ==
    /\ [](/\ \A k \in Components : w3_connections[k] \subseteq CHAIN_CONFIG
          /\ \A i \in 1..Len(trace.connects) :
                 LET c == trace.connects[i]
                 IN  /\ c.outcome = "no_rpc_url" <=> c.chain_id \notin CHAIN_CONFIG
                     /\ c.outcome = "reused" => c.chain_id \in w3_connections[c.by]
                     /\ (i = Len(trace.connects) /\ c.outcome \in {"not_connected", "raise"})
                        => c.chain_id \notin w3_connections[c.by]
                     /\ (/\ i > 1
                         /\ trace.connects[i - 1].by = c.by
                         /\ trace.connects[i - 1].outcome \in {"not_connected", "raise"})
                        => c.outcome \in ConnOutcomes)
    /\ [][\A k \in Components :
              /\ w3_connections[k] \subseteq w3_connections'[k]
              /\ Cached(k) =>
                     /\ trace'.connects # <<>>
                     /\ Connected.by = k
                     /\ Connected.outcome = "connected"
                     /\ w3_connections'[k] = w3_connections[k] \cup {Connected.chain_id}]_vars

\* the route finder's first two connection attempts failed, one of them by
\* raising, the third succeeded: only then has its cache the chain
C23_Witness ==
    /\ pc = "reserves"
    /\ Len(trace.connects) = 3
    /\ trace.connects[1].outcome = "not_connected"
    /\ trace.connects[2].outcome = "raise"
    /\ trace.connects[3].outcome = "connected"
    /\ w3_connections.route_finder = {args.chain_id}
    /\ w3_connections.pool_analyzer = {}

(***************************************************************************)
(* Properties of the estimate endpoint across requests, checked under      *)
(* Spec.                                                                   *)
(***************************************************************************)
\* the route find_best_route returns on the answers the request has heard
HeardRoute ==
    LET last == probes[Len(probes)]
        dex_name == IF last.at = 0 THEN args.route_hint
                    ELSE Factories(args.chain_id)[last.at]
    IN  RouteFound(last.answer, dex_name, FactoryAddress(args.chain_id, dex_name))

\* the amounts and the reserves an estimate request can meet
RequestAmounts == {ParseInt(a).value : a \in {t \in AmountTexts : ParseInt(t).raised = ""}}

HeardReserves ==
    UNION {{[reserve_in |-> r[1], reserve_out |-> r[2]],
            [reserve_in |-> r[2], reserve_out |-> r[1]]} : r \in ReservePairs}

\* what calculate_safe_slippage computes after its reserve read, on a process
\* that has served no request
FreshEstimate(chain_id, amount_in, rs, history) ==
    Recommendation(RouteFound(NoPair, "", ""), rs,
                   FTrunc(FMul(calculate_price_impact(amount_in, rs.reserve_in,
                                                      rs.reserve_out), F100)),
                   estimate_liquidity_depth(rs.reserve_in, rs.reserve_out,
                                            Decimals, Decimals),
                   get_volatility_metrics({}, chain_id, NoPair, 500, "connected",
                                          history).metrics)

\* computed once for each chain, amount, reserves and history
FreshEstimates ==
    [k \in ChainIds \X RequestAmounts \X HeardReserves \X LogAnswers |->
        FreshEstimate(k[1], k[2], k[3], k[4])] @@ <<>>

\* calculate_safe_slippage of a process that has served no request, on the
\* request's arguments and the answers the request has heard
FreshRecommendation ==
    [FreshEstimates[<<args.chain_id, args.amount_in,
                      get_pool_reserves({}, args.chain_id, HeardRoute.pair_address,
                                        args.token_in, args.token_out, "connected",
                                        trace.reserve_read).value,
                      trace.history_read>>]
        EXCEPT !.route_used = HeardRoute.dex_name,
               !.pair_address = HeardRoute.pair_address]

\* C24: an estimate request leaves the process state as it was but for the
\* connection caches, so the recommendation is a function of the request and
\* of the chain's answers only: whatever requests ran before, it is the
\* recommendation a process that has served no request gives on the same
\* request and answers (last_failure and calls are records of the history,
\* not objects of the process)
C24_RequestsLeaveNoResidue ==
    /\ pc = "idle" =>
           /\ entry = "none"
           /\ args = NoArgs
           /\ scan = 0
           /\ probes = <<>>
           /\ route = None
           /\ reserves = None
           /\ local = NoLocal
           /\ result = None
           /\ response = None
           /\ multi = NoMulti
           /\ trace = NoTrace
    /\ (pc = "done" /\ entry = "estimate" /\ result # None) =>
           /\ result = FreshRecommendation
           /\ response = Ok(result)

\* a recommendation given on handles cached by the requests before, after a
\* request that failed
C24_Witness ==
    /\ pc = "done"
    /\ entry = "estimate"
    /\ result # None
    /\ last_failure.reason = "ReservesUnavailable"
    /\ \A i \in 1..Len(trace.connects) : trace.connects[i].outcome = "reused"
    /\ trace.history_read = [ok |-> TRUE, logs |-> BusyLogs]
    /\ result.recent_trade_size_p95 > 0

(***************************************************************************)
(* A further property of calculate_multi_hop_slippage, checked under       *)
(* MultiHopSpec.                                                           *)
(***************************************************************************)
\* C25: calculate_multi_hop_slippage always ends with its result dict or
\* with None and never raises: every call it makes to
\* calculate_output_amount has a non-zero denominator, also when a hop's
\* input amount is 0 and the hop's pool has reserve_in = 0
C25_MultiHopNeverRaises ==
    (entry = "multi_hop" /\ pc = "done") =>
        \/ response = None
        \/ MultiHopSucceeded

(***************************************************************************)
(* Further properties of find_best_route and of calculate_safe_slippage,   *)
(* checked under Spec.                                                     *)
(***************************************************************************)
\* the keys of the chain's factory table
TableKeys(chain_id) == {Factories(chain_id)[i] : i \in 1..Len(Factories(chain_id))}

\* C26: the exchange name of every route find_best_route returns, and so the
\* route_used of every recommendation, is a lowercase key of the chain's
\* factory table and names the exchange whose factory returned the pair
\* address, also when the route_hint is spelled in another letter case
C26_RouteNamesTableKey ==
    /\ route # None =>
           /\ route.dex_name \in TableKeys(args.chain_id)
           /\ route.dex_name = lower(route.dex_name)
           /\ route.dex_name = probes[Len(probes)].dex
           /\ route.pair_address = probes[Len(probes)].answer
    /\ result # None =>
           /\ result.route_used \in TableKeys(args.chain_id)
           /\ result.route_used = probes[Len(probes)].dex

\* the probes of the table scan, and the probe of the hinted exchange
ScanProbes == SelectSeq(probes, LAMBDA p : p.at >= 1)

HintProbes == SelectSeq(probes, LAMBDA p : p.at = 0)

\* C27, as claimed: during one find_best_route call each configured
\* exchange's factory is queried at most once, with or without a hint and
\* whether or not the hinted exchange yields a pair, and the number of probes
\* never exceeds the number of exchanges configured for the chain
C27_EachFactoryProbedOnce ==
    /\ \A i, j \in 1..Len(probes) : i # j => probes[i].dex # probes[j].dex
    /\ Len(probes) <= Len(Factories(args.chain_id))

\* C27, amended: during one find_best_route call each configured exchange's
\* factory is queried at most once by the scan of the table, and the hinted
\* exchange at most once before it; the scan follows the hint's probe only
\* when that probe yielded no pair, and then queries the hinted exchange
\* again, so that the number of probes never exceeds the number of exchanges
\* configured for the chain plus one, and never that number when there is no
\* hint or the hinted exchange yields a pair
C27_EachFactoryProbedOncePerPass ==
    /\ \A i, j \in 1..Len(ScanProbes) : i # j => ScanProbes[i].dex # ScanProbes[j].dex
    /\ Len(ScanProbes) <= Len(Factories(args.chain_id))
    /\ Len(HintProbes) <= 1
    /\ HintProbes # <<>> =>
           /\ Truthy(args.route_hint)
           /\ probes[1] = HintProbes[1]
           /\ HintProbes[1].dex = lower(args.route_hint)
           /\ HintProbes[1].answer \notin NoPairAnswers => Len(probes) = 1
    /\ Len(probes) <= Len(Factories(args.chain_id)) + 1
    /\ (\/ ~Truthy(args.route_hint)
        \/ (probes # <<>> /\ probes[1].answer \notin NoPairAnswers))
       => /\ Len(probes) <= Len(Factories(args.chain_id))
          /\ \A i, j \in 1..Len(probes) : i # j => probes[i].dex # probes[j].dex

\* the hinted exchange had no pair, the scan asked both exchanges of the
\* chain, the hinted one again: three probes on a table of two
C27_Witness ==
    /\ args.route_hint = "sushiswap"
    /\ Len(Factories(args.chain_id)) = 2
    /\ Len(probes) = 3
    /\ probes[1] = [dex |-> "sushiswap", at |-> 0, answer |-> ZERO_ADDRESS]
    /\ probes[3].dex = "sushiswap"
    /\ probes[3].at = 2

\* C28: when the pool reports reserve_in = 0, calculate_safe_slippage returns
\* a recommendation with price_impact_bps = 10000, liquidity_score low,
\* recommended_max_trade = 0 and min_safe_slip_bps = 5000, for every
\* amount_in >= 0, 0 included, and every swap history
C28_EmptyReserveRecommendation ==
    (/\ trace.history_calls = 1
     /\ reserves # None
     /\ reserves.reserve_in = 0
     /\ args.amount_in >= 0)
    => /\ result # None
       /\ result.price_impact_bps = 10000
       /\ result.pool_depths.liquidity_score = "low"
       /\ result.pool_depths.reserve_in_tokens = FZero
       /\ result.recommended_max_trade = 0
       /\ result.min_safe_slip_bps = 5000

\* nothing offered to a pool with nothing on the input side, with swaps logged
C28_Witness ==
    /\ pc = "done"
    /\ entry = "estimate"
    /\ args.amount_in = 0
    /\ result # None
    /\ reserves.reserve_in = 0
    /\ trace.history_read = [ok |-> TRUE, logs |-> BusyLogs]
    /\ response.status = 200
    /\ response.body.price_impact_bps = 10000
    /\ response.body.min_safe_slip_bps = 5000

====
